---------------------------- MODULE Spec2Model ----------------------------
(***************************************************************************)
(* A model of the neutral mini-app's particle transport engine             *)
(* (src/omp3/neutral.c): the block event loop of handle_particles, the     *)
(* collision, facet and census kernels, the geometry kernel, the cross     *)
(* section lookup, the tally accumulator and the partition of the blocks   *)
(* among the worker threads.                                               *)
(*                                                                         *)
(* Arithmetic is exact.  A double is modelled by a pair <<n, d>>: the      *)
(* rational n/d in lowest terms with d > 0, or one of the IEEE specials    *)
(* +Inf = <<1, 0>>, -Inf = <<-1, 0>> and NaN = <<0, 0>>.  Zero has no sign *)
(* in the model: 1/0 is +Inf.                                              *)
(***************************************************************************)
EXTENDS Integers, Sequences, FiniteSets, TLC

(***************************************************************************)
(* Exact arithmetic on doubles                                             *)
(***************************************************************************)
Abs(n) == IF n < 0 THEN -n ELSE n

Sign(n) == IF n < 0 THEN -1 ELSE IF n > 0 THEN 1 ELSE 0

RECURSIVE GCD(_, _)
GCD(a, b) == IF b = 0 THEN a ELSE GCD(b, a % b)

\* n/d in lowest terms with a positive denominator; d = 0 gives Inf or NaN
Norm(n, d) ==
  IF d = 0 THEN <<Sign(n), 0>>
  ELSE LET g == GCD(Abs(n), Abs(d))
           s == Sign(d)
       IN  <<s * Sign(n) * (Abs(n) \div g), Abs(d) \div g>>

R(n) == <<n, 1>>
Zero == <<0, 1>>
One == <<1, 1>>
Inf == <<1, 0>>
NaN == <<0, 0>>

IsNaN(a) == a = NaN
IsFinite(a) == a[2] # 0

\* a + b
RAdd(a, b) ==
  IF IsNaN(a) \/ IsNaN(b) THEN NaN
  ELSE IF ~IsFinite(a) /\ ~IsFinite(b) THEN (IF a = b THEN a ELSE NaN)
  ELSE IF ~IsFinite(a) THEN a
  ELSE IF ~IsFinite(b) THEN b
  ELSE Norm(a[1] * b[2] + b[1] * a[2], a[2] * b[2])

\* -a
RNeg(a) == <<-a[1], a[2]>>

\* a - b
RSub(a, b) == RAdd(a, RNeg(b))

\* a * b (0 * Inf is NaN)
RMul(a, b) == Norm(a[1] * b[1], a[2] * b[2])

\* 1 / a (1/0 is +Inf, 1/Inf is 0)
RInv(a) == Norm(a[2], a[1])

\* a / b
RDiv(a, b) == RMul(a, RInv(b))

\* a < b; false when either is NaN
RLt(a, b) ==
  IF IsNaN(a) \/ IsNaN(b) THEN FALSE
  ELSE IF ~IsFinite(a) /\ ~IsFinite(b) THEN a[1] < b[1]
  ELSE IF ~IsFinite(a) THEN a[1] < 0
  ELSE IF ~IsFinite(b) THEN b[1] > 0
  ELSE a[1] * b[2] < b[1] * a[2]

\* a <= b; false when either is NaN
RLe(a, b) == ~IsNaN(a) /\ ~IsNaN(b) /\ ~RLt(b, a)

\* a >= b
RGe(a, b) == RLe(b, a)

\* sqrt(a) for the squares of rationals, the only arguments the model passes
ISqrt(n) == CHOOSE r \in 0..n : r * r = n

RSqrt(a) ==
  IF IsNaN(a) \/ a[1] < 0 THEN NaN
  ELSE IF ~IsFinite(a) THEN Inf
  ELSE <<ISqrt(a[1]), ISqrt(a[2])>>


(***************************************************************************)
(* Program constants.  The header that sets them is not among the sources; *)
(* the model takes units in which Avogadro's number over the molar mass,   *)
(* a barn and 2*eV_TO_J/PARTICLE_MASS are all 1, and a target of mass      *)
(* number 3, for which a back-scatter (mu_cm = -1) quarters the energy and *)
(* so halves the speed exactly.                                            *)
(***************************************************************************)
AVOGADROS == R(1)
MOLAR_MASS == R(1)
BARNS == R(1)
eV_TO_J == R(1)
PARTICLE_MASS == R(2)
MASS_NO == R(3)
MIN_ENERGY_OF_INTEREST == R(1)
OPEN_BOUND_CORRECTION == R(1)

PARTICLE_DEAD == "PARTICLE_DEAD"
PARTICLE_COLLISION == "PARTICLE_COLLISION"
PARTICLE_FACET == "PARTICLE_FACET"
PARTICLE_CENSUS == "PARTICLE_CENSUS"

\* The lanes of a block, 0 .. BLOCK_SIZE-1
BLOCK_SIZE == 2
Lanes == 0 .. (BLOCK_SIZE - 1)

\* A C array as a sequence: element i of arr
At(arr, i) == arr[i + 1]

(***************************************************************************)
(* The mesh and the material: one domain (main.c), no halo                 *)
(***************************************************************************)
pad == 0
x_off == 0
y_off == 0
edgex == <<R(0), R(4), R(8), R(12)>>
edgey == <<R(0), R(4), R(8)>>
global_nx == Len(edgex) - 1 - 2 * pad
global_ny == Len(edgey) - 1 - 2 * pad
nx == global_nx
ny == global_ny
\* The problem main reads from its parameter files: the density of every
\* cell, density[celly * (nx + 2 * pad) + cellx] row by row, and the two cross
\* section tables (keys in energy order, and the values)
VARIABLE problem

density == problem.density
cs_scatter_table == problem.cs_scatter
cs_absorb_table == problem.cs_absorb

cs_keys == <<R(0), <<1, 2>>, <<3, 2>>, R(8)>>

\* A table over cs_keys with the given values
cs_table(values) == [nentries |-> Len(cs_keys), keys |-> cs_keys, values |-> values]

\* A scattering and absorbing material with one void cell, cell (2, 0)
MixedProblem ==
  [density |-> <<R(1), R(1), R(0),
                 R(2), R(1), R(1)>>,
   cs_scatter |-> cs_table(<<R(2), R(2), R(0), R(0)>>),
   cs_absorb |-> cs_table(<<R(1), R(1), R(1), R(1)>>)]

\* A pure absorber of density 1: no scattering at any energy
AbsorberProblem ==
  [density |-> <<R(1), R(1), R(1),
                 R(1), R(1), R(1)>>,
   cs_scatter |-> cs_table(<<R(0), R(0), R(0), R(0)>>),
   cs_absorb |-> cs_table(<<R(10), R(10), R(10), R(10)>>)]

\* A void: density zero in every cell, and both tables zero at every energy
VoidProblem ==
  [density |-> <<R(0), R(0), R(0),
                 R(0), R(0), R(0)>>,
   cs_scatter |-> cs_table(<<R(0), R(0), R(0), R(0)>>),
   cs_absorb |-> cs_table(<<R(0), R(0), R(0), R(0)>>)]

Problems == {MixedProblem, AbsorberProblem, VoidProblem}

(***************************************************************************)
(* microscopic_cs_for_energy_binary: the search for the energy group and   *)
(* the value interpolated in it.  A read outside keys[0 .. nentries-1] is  *)
(* reported as index -1 and value NaN.                                     *)
(***************************************************************************)
Max(a, b) == IF a > b THEN a ELSE b

RECURSIVE BinarySearch(_, _, _, _)
BinarySearch(cs, energy, ind, width) ==
  IF ind < 0 \/ ind + 1 > cs.nentries - 1 THEN -1
  ELSE IF RLt(energy, At(cs.keys, ind)) \/ RGe(energy, At(cs.keys, ind + 1))
       THEN BinarySearch(cs, energy,
                         ind + (IF RLt(energy, At(cs.keys, ind))
                                THEN -width ELSE width),
                         Max(1, width \div 2))
       ELSE ind

cs_index_for_energy(cs, energy) ==
  BinarySearch(cs, energy, cs.nentries \div 2, (cs.nentries \div 2) \div 2)

\* The value linearly interpolated in the group ind
cs_interpolate(cs, energy, ind) ==
  IF ind = -1 THEN NaN
  ELSE RAdd(At(cs.values, ind),
            RMul(RDiv(RSub(energy, At(cs.keys, ind)),
                      RSub(At(cs.keys, ind + 1), At(cs.keys, ind))),
                 RSub(At(cs.values, ind + 1), At(cs.values, ind))))

microscopic_cs_for_energy_binary(cs, energy) ==
  cs_interpolate(cs, energy, cs_index_for_energy(cs, energy))

(***************************************************************************)
(* calc_distance_to_facet: the distance to the next facet of the cell and  *)
(* whether it is an x facet                                                *)
(***************************************************************************)
\* The time to the x facet ahead, given 1 / (omega_x * speed)
facet_dt_x(x, omega_x, u_x_inv, particle_cellx) ==
  LET cellx == particle_cellx - x_off + pad
  IN  IF RGe(omega_x, Zero)
      THEN RMul(RSub(At(edgex, cellx + 1), x), u_x_inv)
      ELSE RMul(RSub(RSub(At(edgex, cellx), OPEN_BOUND_CORRECTION), x), u_x_inv)

facet_dt_y(y, omega_y, u_y_inv, particle_celly) ==
  LET celly == particle_celly - y_off + pad
  IN  IF RGe(omega_y, Zero)
      THEN RMul(RSub(At(edgey, celly + 1), y), u_y_inv)
      ELSE RMul(RSub(RSub(At(edgey, celly), OPEN_BOUND_CORRECTION), y), u_y_inv)

\* Variant: equal times are taken as an x facet
first_facet_tie_is_x(dt_x, dt_y, mag_u0) ==
  [x_facet |-> RLe(dt_x, dt_y),
   distance_to_facet |-> IF RLe(dt_x, dt_y) THEN RMul(dt_x, mag_u0)
                                             ELSE RMul(dt_y, mag_u0)]

\* The facet that is met first, and the distance to it
first_facet(dt_x, dt_y, mag_u0) ==
  [x_facet |-> RLt(dt_x, dt_y),
   distance_to_facet |-> IF RLt(dt_x, dt_y) THEN RMul(dt_x, mag_u0)
                                             ELSE RMul(dt_y, mag_u0)]

calc_distance_to_facet(x, y, omega_x, omega_y, speed, particle_cellx, particle_celly) ==
  first_facet(facet_dt_x(x, omega_x, RInv(RMul(omega_x, speed)), particle_cellx),
              facet_dt_y(y, omega_y, RInv(RMul(omega_y, speed)), particle_celly),
              speed)

(***************************************************************************)
(* calculate_energy_deposition: the heating along a path                   *)
(***************************************************************************)
calculate_energy_deposition(path_length, number_density, microscopic_cs_absorb, microscopic_cs_total, energy, weight) ==
  LET average_exit_energy_absorb == Zero
      absorption_heating ==
        RMul(RDiv(microscopic_cs_absorb, microscopic_cs_total),
             average_exit_energy_absorb)
      average_exit_energy_scatter ==
        RMul(energy,
             RDiv(RAdd(RAdd(RMul(MASS_NO, MASS_NO), MASS_NO), One),
                  RMul(RAdd(MASS_NO, One), RAdd(MASS_NO, One))))
      scattering_heating ==
        RMul(RSub(One, RDiv(microscopic_cs_absorb, microscopic_cs_total)),
             average_exit_energy_scatter)
      heating_response ==
        RSub(RSub(energy, scattering_heating), absorption_heating)
  IN  RMul(RMul(RMul(RMul(weight, path_length),
                     RMul(microscopic_cs_total, BARNS)),
                heating_response),
           number_density)

\* speed = sqrt((2.0 * energy * eV_TO_J) / PARTICLE_MASS)
speed_of(energy) ==
  RSqrt(RDiv(RMul(RMul(R(2), energy), eV_TO_J), PARTICLE_MASS))

(***************************************************************************)
(* The state.  particle_block is the block of particles (one record per    *)
(* lane); cache holds the arrays handle_particles keeps per lane;          *)
(* energy_deposition_tally is the tally mesh.  The build with TALLY_OUT    *)
(* defined runs on the same particles and the same random numbers: its     *)
(* pending energy per lane and its tally mesh are kept in tally_out.       *)
(***************************************************************************)
VARIABLES pc, dt, particle_block, cache, next_event, counter,
          nfacets, ncollisions, energy_deposition_tally, tally_out

\* How many times each kernel has been called for each lane of the block,
\* and the counter given to each call of generate_random_numbers for the
\* lane, in order (a record of the run, not a variable of the program)
VARIABLE kernel_calls

block_vars == <<pc, dt, particle_block, cache, next_event, counter,
                nfacets, ncollisions, energy_deposition_tally, tally_out,
                kernel_calls>>

block_vars_but_pc == <<dt, particle_block, cache, next_event, counter,
                       nfacets, ncollisions, energy_deposition_tally, tally_out,
                       kernel_calls>>

\* The threads of the parallel region of handle_particles: how many there
\* are, how many particles the call is to process, the loop index b of each
\* thread, and how many times each block of the call has been run
VARIABLES nthreads, nparticles_to_process, thread_b, blocks_run

thread_vars == <<nthreads, nparticles_to_process, thread_b, blocks_run>>

\* The workers inside update_tallies (MANUAL_ATOMIC): the tally words they
\* add to, each worker's target cell, its addend, its position in the
\* function, its local old1, and the number of compare-and-swaps it has made
VARIABLES tally_word, tally_before, w_cell, w_tally, w_pc, w_old1, w_attempts

atomic_vars == <<tally_word, tally_before, w_cell, w_tally, w_pc, w_old1,
                 w_attempts>>

\* main: the time step tt of its loop, its master_key, what the parameter
\* master_key of solve_transport_2d is bound to at the call, and the value
\* that parameter had in each call so far
VARIABLES tt, master_key, key_binding, keys_used

main_vars == <<problem, tt, master_key, key_binding, keys_used>>

\* Calls that are followed on their own, outside the time-step loop: a call
\* of microscopic_cs_for_energy_binary, a call of inject_particles, the cells
\* that one particle of a subdomain goes through, and the exchange of
\* particles between the ranks of the multi-domain driver
VARIABLES lookup, inject, walk, exchange, facet_call

side_vars == <<lookup, inject, walk, exchange, facet_call>>

vars == <<block_vars, thread_vars, atomic_vars, main_vars, side_vars>>

\* One block is handed to handle_particles
ntotal_particles == BLOCK_SIZE
inv_ntotal_particles == RDiv(One, R(ntotal_particles))

(***************************************************************************)
(* generate_random_numbers.  The draws are inputs of the model.  At block  *)
(* initialisation only -log(rn[0]) is used; a collision uses rn1[0],       *)
(* rn1[1] and -log(rn1[3]).  rn1[1] is 0 (mu_cm = 1, a forward scatter) or *)
(* 1 (mu_cm = -1, a back-scatter).                                         *)
(***************************************************************************)
InitDraws == {[nlog0 |-> R(1)], [nlog0 |-> R(4)]}

CollisionDraws ==
  {[rn0 |-> <<1, 4>>, rn1 |-> R(1), nlog3 |-> R(3)],
   [rn0 |-> <<3, 4>>, rn1 |-> R(1), nlog3 |-> R(3)],
   [rn0 |-> <<3, 4>>, rn1 |-> R(0), nlog3 |-> R(6)]}

(***************************************************************************)
(* inject_particles: a particle of the source region                       *)
(***************************************************************************)
RECURSIVE locate_cell(_, _, _, _, _)
locate_cell(edge, local_n, off, pos, i) ==
  IF i >= local_n THEN 0
  ELSE IF RGe(pos, At(edge, i + pad)) /\ RLt(pos, At(edge, i + pad + 1))
       THEN off + i
       ELSE locate_cell(edge, local_n, off, pos, i + 1)

inject_particle(x, y, omega, initial_energy, step_dt) ==
  [x |-> x, y |-> y,
   cellx |-> locate_cell(edgex, nx, x_off, x, 0),
   celly |-> locate_cell(edgey, ny, y_off, y, 0),
   omega_x |-> omega[1], omega_y |-> omega[2],
   energy |-> initial_energy,
   weight |-> One,
   dt_to_census |-> step_dt,
   mfp_to_collision |-> Zero,
   dead |-> FALSE]

\* The arrays of handle_particles before the block initialisation writes them
UninitialisedCache ==
  [x_facet |-> FALSE, absorb_cs_index |-> -1, scatter_cs_index |-> -1,
   cell_mfp |-> Zero, energy_deposition |-> Zero, local_density |-> Zero,
   microscopic_cs_scatter |-> Zero, microscopic_cs_absorb |-> Zero,
   number_density |-> Zero, macroscopic_cs_scatter |-> Zero,
   macroscopic_cs_absorb |-> Zero, speed |-> Zero,
   distance_to_facet |-> Zero, key |-> 0]

NCells == nx * ny
ZeroTally == [i \in 0 .. (NCells - 1) |-> Zero]

(***************************************************************************)
(* update_tallies: add the energy deposition to the particle's cell.  In   *)
(* this specification one thread runs the block, so the atomic add is one  *)
(* step; its compare-and-swap loop is modelled on its own further down.    *)
(***************************************************************************)
tally_index(p_cellx, p_celly) ==
  LET cellx == p_cellx - x_off
      celly == p_celly - y_off
  IN  celly * nx + cellx

update_tallies(tally, p_cellx, p_celly, energy_deposition) ==
  LET i == tally_index(p_cellx, p_celly)
  IN  [tally EXCEPT ![i] = RAdd(@, RMul(energy_deposition, inv_ntotal_particles))]

(***************************************************************************)
(* The block initialisation of one lane (the "cache_init" loop body)       *)
(***************************************************************************)
density_at_init(p_cellx, p_celly) ==
  LET cellx == p_cellx - x_off + pad
      celly == p_celly - y_off + pad
  IN  At(density, celly * (nx + 2 * pad) + cellx)

cache_init_lane(pt, c, key, initial, rn) ==
  IF pt.dead THEN [p |-> pt, c |-> c]
  ELSE
    LET local_density == density_at_init(pt.cellx, pt.celly)
        micro_s == microscopic_cs_for_energy_binary(cs_scatter_table, pt.energy)
        micro_a == microscopic_cs_for_energy_binary(cs_absorb_table, pt.energy)
        number_density == RDiv(RMul(local_density, AVOGADROS), MOLAR_MASS)
        macro_s == RMul(RMul(number_density, micro_s), BARNS)
        macro_a == RMul(RMul(number_density, micro_a), BARNS)
        c1 == [c EXCEPT
                !.x_facet = FALSE,
                !.absorb_cs_index = cs_index_for_energy(cs_absorb_table, pt.energy),
                !.scatter_cs_index = cs_index_for_energy(cs_scatter_table, pt.energy),
                !.cell_mfp = Zero,
                !.energy_deposition = Zero,
                !.local_density = local_density,
                !.microscopic_cs_scatter = micro_s,
                !.microscopic_cs_absorb = micro_a,
                !.number_density = number_density,
                !.macroscopic_cs_scatter = macro_s,
                !.macroscopic_cs_absorb = macro_a,
                !.speed = speed_of(pt.energy),
                !.key = key]
    IN  [p |-> IF initial
               THEN [pt EXCEPT !.dt_to_census = dt,
                               !.mfp_to_collision = RDiv(rn.nlog0, macro_s)]
               ELSE pt,
         c |-> c1]

(***************************************************************************)
(* The classification of one lane (the "calc_events" loop body)            *)
(***************************************************************************)
\* Variant: the facet is looked at before the collision
classify_facet_first(d_collision, d_facet, d_census) ==
  IF RLt(d_facet, d_census)
  THEN PARTICLE_FACET
  ELSE IF RLt(d_collision, d_facet) /\
          RLt(d_collision, d_census)
       THEN PARTICLE_COLLISION
       ELSE PARTICLE_CENSUS

\* Variant: a collision at the very distance of the facet wins
classify_tie_collides(d_collision, d_facet, d_census) ==
  IF RLe(d_collision, d_facet) /\
     RLt(d_collision, d_census)
  THEN PARTICLE_COLLISION
  ELSE IF RLt(d_facet, d_census)
       THEN PARTICLE_FACET
       ELSE PARTICLE_CENSUS

\* Variant: the collision is not compared with the census
classify_ignores_census(d_collision, d_facet, d_census) ==
  IF RLt(d_collision, d_facet)
  THEN PARTICLE_COLLISION
  ELSE IF RLt(d_facet, d_census)
       THEN PARTICLE_FACET
       ELSE PARTICLE_CENSUS

\* Variant: the census never wins
classify_no_census(d_collision, d_facet, d_census) ==
  IF RLt(d_collision, d_facet) /\
     RLt(d_collision, d_census)
  THEN PARTICLE_COLLISION
  ELSE PARTICLE_FACET

\* Variant: a collision distance that is not finite is a collision at once
classify_unbounded_collides(d_collision, d_facet, d_census) ==
  IF ~IsFinite(d_collision) \/
     (RLt(d_collision, d_facet) /\ RLt(d_collision, d_census))
  THEN PARTICLE_COLLISION
  ELSE IF RLt(d_facet, d_census)
       THEN PARTICLE_FACET
       ELSE PARTICLE_CENSUS

classify(distance_to_collision, distance_to_facet, distance_to_census) ==
  IF RLt(distance_to_collision, distance_to_facet) /\
     RLt(distance_to_collision, distance_to_census)
  THEN PARTICLE_COLLISION
  ELSE IF RLt(distance_to_facet, distance_to_census)
       THEN PARTICLE_FACET
       ELSE PARTICLE_CENSUS

\* The three distances of a live lane, given its cell_mfp and the facet f
\* that calc_distance_to_facet found
distances_from(pt, c, cell_mfp, f) ==
  [cell_mfp |-> cell_mfp,
   x_facet |-> f.x_facet,
   distance_to_facet |-> f.distance_to_facet,
   distance_to_collision |-> RMul(pt.mfp_to_collision, cell_mfp),
   distance_to_census |-> RMul(c.speed, pt.dt_to_census)]

\* The three distances of a live lane, as the loop body computes them
lane_distances(pt, c) ==
  distances_from(pt, c,
    RDiv(One, RAdd(c.macroscopic_cs_scatter, c.macroscopic_cs_absorb)),
    calc_distance_to_facet(pt.x, pt.y, pt.omega_x, pt.omega_y, c.speed,
                           pt.cellx, pt.celly))

\* What the loop body keeps of the distances d, and the tag it gives
tag_lane(c, d) ==
  [c |-> [c EXCEPT !.cell_mfp = d.cell_mfp,
                   !.x_facet = d.x_facet,
                   !.distance_to_facet = d.distance_to_facet],
   next_event |-> classify(d.distance_to_collision, d.distance_to_facet,
                           d.distance_to_census)]

\* Variant: a dead lane is classified like any other
calc_events_lane_ignores_dead(pt, c) == tag_lane(c, lane_distances(pt, c))

calc_events_lane(pt, c) ==
  IF pt.dead THEN [c |-> c, next_event |-> PARTICLE_DEAD]
  ELSE tag_lane(c, lane_distances(pt, c))

(***************************************************************************)
(* collision_event                                                         *)
(***************************************************************************)
\* Lines 353-370: absorption.  r = [p, c, t] is the lane after the move to
\* the collision site.
collision_absorb(TALLY_OUT, r, p_absorb) ==
  LET dies == RLt(r.p.energy, MIN_ENERGY_OF_INTEREST)
      flush == dies /\ ~TALLY_OUT
  IN  [p |-> [r.p EXCEPT !.weight = RMul(@, RSub(One, p_absorb)),
                         !.dead = dies],
       c |-> IF flush THEN [r.c EXCEPT !.energy_deposition = Zero] ELSE r.c,
       t |-> IF flush
             THEN update_tallies(r.t, r.p.cellx, r.p.celly, r.c.energy_deposition)
             ELSE r.t]

\* Lines 380-385: the energy after an elastic scattering
scatter_e_new(energy, rn1) ==
  LET mu_cm == RSub(One, RMul(R(2), rn1.rn1))
  IN  RDiv(RMul(energy,
                RAdd(RAdd(RMul(MASS_NO, MASS_NO),
                          RMul(RMul(R(2), MASS_NO), mu_cm)), One)),
           RMul(RAdd(MASS_NO, One), RAdd(MASS_NO, One)))

\* Lines 388-390: the angle in the laboratory frame
scatter_cos_theta(energy, e_new) ==
  RSub(RMul(RMul(<<1, 2>>, RAdd(MASS_NO, One)), RSqrt(RDiv(e_new, energy))),
       RMul(RMul(<<1, 2>>, RSub(MASS_NO, One)), RSqrt(RDiv(energy, e_new))))

\* Lines 392-400: the rotation of the direction, and the new energy
scatter_rotate(pt, e_new, cos_theta, sin_theta) ==
  [pt EXCEPT
    !.omega_x = RSub(RMul(pt.omega_x, cos_theta), RMul(pt.omega_y, sin_theta)),
    !.omega_y = RAdd(RMul(pt.omega_x, sin_theta), RMul(pt.omega_y, cos_theta)),
    !.energy = e_new]

scatter_by(pt, e_new, cos_theta) ==
  scatter_rotate(pt, e_new, cos_theta,
                 RSqrt(RSub(One, RMul(cos_theta, cos_theta))))

scatter_to(pt, e_new) ==
  scatter_by(pt, e_new, scatter_cos_theta(pt.energy, e_new))

\* Lines 371-401: elastic scattering
collision_scatter(pt, rn1) == scatter_to(pt, scatter_e_new(pt.energy, rn1))

\* The cross sections of the energy after the collision
collision_lookup(c, energy, number_density, micro_s, micro_a) ==
  [c EXCEPT
    !.microscopic_cs_scatter = micro_s,
    !.microscopic_cs_absorb = micro_a,
    !.scatter_cs_index = cs_index_for_energy(cs_scatter_table, energy),
    !.absorb_cs_index = cs_index_for_energy(cs_absorb_table, energy),
    !.number_density = number_density,
    !.macroscopic_cs_scatter = RMul(RMul(number_density, micro_s), BARNS),
    !.macroscopic_cs_absorb = RMul(RMul(number_density, micro_a), BARNS),
    !.speed = speed_of(energy)]

\* The lane with the cache c1 of the new energy: the mean free paths are
\* drawn again and the time of the flight is taken off
collision_resample(r, c1, distance_to_collision, rn1) ==
  [p |-> [r.p EXCEPT
           !.mfp_to_collision = RDiv(rn1.nlog3, c1.macroscopic_cs_scatter),
           !.dt_to_census = RSub(@, RDiv(distance_to_collision, r.c.speed))],
   c |-> c1,
   t |-> r.t]

\* Lines 404-420: nothing more for a dead particle; otherwise the cross
\* sections of the new energy, the mean free paths, the time and the speed
collision_update(r, distance_to_collision, rn1) ==
  IF r.p.dead THEN r
  ELSE collision_resample(r,
         collision_lookup(r.c, r.p.energy,
           RDiv(RMul(r.c.local_density, AVOGADROS), MOLAR_MASS),
           microscopic_cs_for_energy_binary(cs_scatter_table, r.p.energy),
           microscopic_cs_for_energy_binary(cs_absorb_table, r.p.energy)),
         distance_to_collision, rn1)

\* Lines 346-401: the particle is absorbed with probability p_absorb, and
\* scattered otherwise
collision_outcome(TALLY_OUT, r, p_absorb, rn1) ==
  IF RLt(rn1.rn0, p_absorb)
  THEN collision_absorb(TALLY_OUT, r, p_absorb)
  ELSE [p |-> collision_scatter(r.p, rn1), c |-> r.c, t |-> r.t]

\* Lines 337-344: the energy of the path is kept in the lane and the
\* particle is moved to the collision site
collision_move(pt, c, tally, distance_to_collision) ==
  [p |-> [pt EXCEPT !.x = RAdd(@, RMul(distance_to_collision, pt.omega_x)),
                    !.y = RAdd(@, RMul(distance_to_collision, pt.omega_y))],
   c |-> [c EXCEPT !.energy_deposition =
            RAdd(@, calculate_energy_deposition(
                      distance_to_collision, c.number_density,
                      c.microscopic_cs_absorb,
                      RAdd(c.microscopic_cs_scatter, c.microscopic_cs_absorb),
                      pt.energy, pt.weight))],
   t |-> tally]

collision_event(TALLY_OUT, pt, c, tally, distance_to_collision, rn1) ==
  collision_update(
    collision_outcome(TALLY_OUT,
      collision_move(pt, c, tally, distance_to_collision),
      RDiv(c.macroscopic_cs_absorb,
           RAdd(c.macroscopic_cs_scatter, c.macroscopic_cs_absorb)),
      rn1),
    distance_to_collision, rn1)

(***************************************************************************)
(* facet_event                                                             *)
(***************************************************************************)
\* Variant: the step up is allowed from the last cell too
facet_reflect_unbounded(omega, cell, global_n) ==
  LET omega1 == IF cell >= global_n - 1 \/ cell <= 0 THEN RNeg(omega) ELSE omega
      cell1 == cell + (IF RLt(Zero, omega1) /\ cell < global_n THEN 1 ELSE 0)
      cell2 == cell1 + (IF RLt(omega1, Zero) /\ cell1 > 0 THEN -1 ELSE 0)
  IN  [omega |-> omega1, cell |-> cell2]

\* The direction cosine and the cell index after the facet is met
facet_reflect(omega, cell, global_n) ==
  LET omega1 == IF cell >= global_n - 1 \/ cell <= 0 THEN RNeg(omega) ELSE omega
      cell1 == cell + (IF RLt(Zero, omega1) /\ cell < global_n - 1 THEN 1 ELSE 0)
      cell2 == cell1 + (IF RLt(omega1, Zero) /\ cell1 > 0 THEN -1 ELSE 0)
  IN  [omega |-> omega1, cell |-> cell2]

\* Variant: the density array is read by columns
density_at_facet_by_columns(p_cellx, p_celly) ==
  LET cellx == p_cellx - x_off
      celly == p_celly - y_off
  IN  At(density, cellx * ny + celly)

density_at_facet(p_cellx, p_celly) ==
  LET cellx == p_cellx - x_off
      celly == p_celly - y_off
  IN  At(density, celly * nx + cellx)

\* Lines 455-464: the facet met is an x facet or a y facet
facet_cross(pt, x_facet, rx, ry) ==
  [pt EXCEPT
    !.omega_x = IF x_facet THEN rx.omega ELSE @,
    !.cellx = IF x_facet THEN rx.cell ELSE @,
    !.omega_y = IF x_facet THEN @ ELSE ry.omega,
    !.celly = IF x_facet THEN @ ELSE ry.cell]

\* Lines 447-464: the particle is moved to the facet and through it
facet_move(pt, c) ==
  facet_cross(
    [pt EXCEPT
      !.mfp_to_collision = RSub(@, RDiv(c.distance_to_facet, c.cell_mfp)),
      !.dt_to_census = RSub(@, RDiv(c.distance_to_facet, c.speed)),
      !.x = RAdd(@, RMul(c.distance_to_facet, pt.omega_x)),
      !.y = RAdd(@, RMul(c.distance_to_facet, pt.omega_y))],
    c.x_facet,
    facet_reflect(pt.omega_x, pt.cellx, global_nx),
    facet_reflect(pt.omega_y, pt.celly, global_ny))

\* Variant: the lane's energy is flushed after the move, to the cell entered
facet_flush_late(pt, c, tally) ==
  [p |-> pt,
   c |-> [c EXCEPT !.energy_deposition = Zero],
   t |-> update_tallies(tally,
           facet_move(pt, c).cellx, facet_move(pt, c).celly,
           RAdd(c.energy_deposition,
                calculate_energy_deposition(
                  c.distance_to_facet, c.number_density,
                  c.microscopic_cs_absorb,
                  RAdd(c.microscopic_cs_scatter, c.microscopic_cs_absorb),
                  pt.energy, pt.weight)))]

\* The energy of the path to the facet is added and the lane's energy flushed
facet_flush(pt, c, tally) ==
  LET dep == calculate_energy_deposition(
               c.distance_to_facet, c.number_density, c.microscopic_cs_absorb,
               RAdd(c.microscopic_cs_scatter, c.microscopic_cs_absorb),
               pt.energy, pt.weight)
  IN  [p |-> pt,
       c |-> [c EXCEPT !.energy_deposition = Zero],
       t |-> update_tallies(tally, pt.cellx, pt.celly,
                            RAdd(c.energy_deposition, dep))]

\* Lines 469-472: the data of the cell entered, given its number density
facet_cell_data(c, local_density, number_density) ==
  [c EXCEPT
    !.local_density = local_density,
    !.number_density = number_density,
    !.macroscopic_cs_scatter =
       RMul(RMul(number_density, c.microscopic_cs_scatter), BARNS),
    !.macroscopic_cs_absorb =
       RMul(RMul(number_density, c.microscopic_cs_absorb), BARNS)]

facet_density(c, local_density) ==
  facet_cell_data(c, local_density,
                  RDiv(RMul(local_density, AVOGADROS), MOLAR_MASS))

\* Lines 466-472: f is the lane after the flush, p1 the particle moved
facet_arrive(f, p1) ==
  [p |-> p1,
   c |-> facet_density(f.c, density_at_facet(p1.cellx, p1.celly)),
   t |-> f.t]

facet_event(TALLY_OUT, pt, c, tally) ==
  facet_arrive(IF TALLY_OUT THEN [p |-> pt, c |-> c, t |-> tally]
               ELSE facet_flush(pt, c, tally),
               facet_move(pt, c))

(***************************************************************************)
(* census_event                                                            *)
(***************************************************************************)
\* Lines 496-498: the lane's energy ed1 goes to the tally
census_tally(p1, c, tally, ed1) ==
  [p |-> p1,
   c |-> [c EXCEPT !.energy_deposition = ed1],
   t |-> update_tallies(tally, p1.cellx, p1.celly, ed1)]

census_event(pt, c, tally, distance_to_census) ==
  census_tally(
    [pt EXCEPT
      !.x = RAdd(@, RMul(distance_to_census, pt.omega_x)),
      !.y = RAdd(@, RMul(distance_to_census, pt.omega_y)),
      !.mfp_to_collision = RSub(@, RDiv(distance_to_census, c.cell_mfp)),
      !.dt_to_census = Zero],
    c, tally,
    RAdd(c.energy_deposition,
         calculate_energy_deposition(
           distance_to_census, c.number_density, c.microscopic_cs_absorb,
           RAdd(c.microscopic_cs_scatter, c.microscopic_cs_absorb),
           pt.energy, pt.weight)))

(***************************************************************************)
(* The lane loops of handle_particles.  A loop walks the lanes in order    *)
(* and carries the block B = [p, c, t]: the particles, the lane arrays and *)
(* the tally mesh of one build.                                            *)
(***************************************************************************)
Put(B, ip, r) == [p |-> [B.p EXCEPT ![ip] = r.p],
                  c |-> [B.c EXCEPT ![ip] = r.c],
                  t |-> r.t,
                  k |-> B.k]

\* The call of a kernel for lane ip is recorded
Called(B, ip, kernel) == [B EXCEPT !.k[ip][kernel] = @ + 1]

\* Variant: a kernel loop passes over the dead lanes only
passes_over_dead_only(tag, kernel_tag) == tag = PARTICLE_DEAD

\* "if (next_event[ip] != PARTICLE_...) continue;" at the head of the body
\* of each kernel loop
passes_over(tag, kernel_tag) == tag # kernel_tag

RECURSIVE collision_loop(_, _, _, _, _)
collision_loop(TALLY_OUT, ip, B, ev, rn) ==
  IF ip = BLOCK_SIZE THEN B
  ELSE collision_loop(TALLY_OUT, ip + 1,
         IF passes_over(ev[ip], PARTICLE_COLLISION) THEN B
         ELSE Called(Put(B, ip,
                  collision_event(TALLY_OUT, B.p[ip], B.c[ip], B.t,
                                  RMul(B.p[ip].mfp_to_collision, B.c[ip].cell_mfp),
                                  rn[ip])), ip, "collision"),
         ev, rn)

RECURSIVE tally_out_loop(_, _, _)
tally_out_loop(ip, B, ev) ==
  IF ip = BLOCK_SIZE THEN B
  ELSE tally_out_loop(ip + 1,
         IF ev[ip] # PARTICLE_FACET \/
            (B.p[ip].dead /\ ev[ip] = PARTICLE_COLLISION)
         THEN B
         ELSE Put(B, ip, facet_flush(B.p[ip], B.c[ip], B.t)),
         ev)

RECURSIVE facet_loop(_, _, _, _)
facet_loop(TALLY_OUT, ip, B, ev) ==
  IF ip = BLOCK_SIZE THEN B
  ELSE facet_loop(TALLY_OUT, ip + 1,
         IF passes_over(ev[ip], PARTICLE_FACET) THEN B
         ELSE Called(Put(B, ip, facet_event(TALLY_OUT, B.p[ip], B.c[ip], B.t)),
                     ip, "facet"),
         ev)

RECURSIVE census_loop(_, _, _)
census_loop(ip, B, ev) ==
  IF ip = BLOCK_SIZE THEN B
  ELSE census_loop(ip + 1,
         IF passes_over(ev[ip], PARTICLE_CENSUS) THEN B
         ELSE Called(Put(B, ip,
                  census_event(B.p[ip], B.c[ip], B.t,
                               RMul(B.c[ip].speed, B.p[ip].dt_to_census))),
                     ip, "census"),
         ev)

\* The block as each build sees it
DefaultBuild ==
  [p |-> particle_block, c |-> cache, t |-> energy_deposition_tally,
   k |-> kernel_calls]

TallyOutBuild ==
  [p |-> particle_block,
   c |-> [ip \in Lanes |->
            [cache[ip] EXCEPT !.energy_deposition = tally_out.energy_deposition[ip]]],
   t |-> tally_out.energy_deposition_tally,
   k |-> kernel_calls]

TallyOutOf(B) ==
  [energy_deposition |-> [ip \in Lanes |-> B.c[ip].energy_deposition],
   energy_deposition_tally |-> B.t]

(***************************************************************************)
(* The inputs of a time step: the time step, and where the source puts the *)
(* particles.  Lane 0 ranges over Sources and lane 1 over                  *)
(* CompanionSources; a further lane holds the particle of VoidSource.  A   *)
(* lane other than lane 0 may instead hold a particle that died in an      *)
(* earlier time step.                                                      *)
(***************************************************************************)
MaxCounter == 6
initial_energy == R(1)
DtChoices == {R(2), R(3)}
Sources == {<<<<R(2), R(2)>>, <<R(1), R(0)>>>>,
            <<<<R(2), R(2)>>, <<<<-4, 5>>, <<-3, 5>>>>>>,
            <<<<R(1), R(0)>>, <<<<3, 5>>, <<4, 5>>>>>>,
            <<<<R(6), R(2)>>, <<R(-1), R(0)>>>>,
            <<<<R(6), R(2)>>, <<R(1), R(0)>>>>,
            <<<<R(6), R(6)>>, <<R(0), R(1)>>>>}
VoidSource == <<<<R(9), R(2)>>, <<R(-1), R(0)>>>>
CompanionSources == {VoidSource, <<<<R(6), R(6)>>, <<R(1), R(0)>>>>}
StepSources == {<<<<R(2), R(2)>>, <<R(1), R(0)>>>>, VoidSource}

FirstCollisionDraw == CHOOSE d \in CollisionDraws : TRUE

UNSET == "UNSET"

NoKernelCalled ==
  [ip \in Lanes |-> [collision |-> 0, facet |-> 0, census |-> 0,
                     draws |-> <<>>]]

\* The block loop is followed for one block in the hands of one thread
OneThreadOneBlock ==
  /\ nthreads = 1
  /\ nparticles_to_process = BLOCK_SIZE
  /\ thread_b = [tid \in {0} |-> 0]
  /\ blocks_run = [bid \in {0} |-> 0]

\* ... and its tally updates are single steps: no worker is inside one
NoWorkerInUpdate ==
  /\ tally_word = <<>>
  /\ tally_before = <<>>
  /\ w_cell = <<>>
  /\ w_tally = <<>>
  /\ w_pc = <<>>
  /\ w_old1 = <<>>
  /\ w_attempts = <<>>

\* ... and no call is followed on its own
SideCallsLeftOut ==
  /\ lookup = <<>>
  /\ inject = <<>>
  /\ walk = <<>>
  /\ exchange = <<>>
  /\ facet_call = <<>>

\* ... in the first time step of the problem MixedProblem.  main has called
\* initialise_neutral_data with "master_key++" (main.c line 73).
FirstTimeStep ==
  /\ problem = MixedProblem
  /\ tt = 1
  /\ master_key = 1
  /\ key_binding = "mesh.pad"
  /\ keys_used = <<>>

Init ==
  /\ pc = "cache_init"
  /\ dt \in DtChoices
  /\ \E src \in [Lanes -> Sources \cup CompanionSources],
        died \in [Lanes -> BOOLEAN] :
       /\ src[0] \in Sources
       /\ \A ip \in Lanes \ {0} : src[ip] \in CompanionSources
       /\ \A ip \in Lanes \ {0, 1} : src[ip] = VoidSource
       /\ ~died[0]
       /\ \A ip \in Lanes : died[ip] => src[ip] = VoidSource
       /\ particle_block =
            [ip \in Lanes |->
               [inject_particle(src[ip][1][1], src[ip][1][2], src[ip][2],
                                initial_energy, dt)
                  EXCEPT !.dead = died[ip]]]
  /\ cache = [ip \in Lanes |-> UninitialisedCache]
  /\ next_event = [ip \in Lanes |-> UNSET]
  /\ counter = 0
  /\ nfacets = 0
  /\ ncollisions = 0
  /\ energy_deposition_tally = ZeroTally
  /\ tally_out = [energy_deposition |-> [ip \in Lanes |-> Zero],
                  energy_deposition_tally |-> ZeroTally]
  /\ kernel_calls = NoKernelCalled
  /\ OneThreadOneBlock
  /\ NoWorkerInUpdate
  /\ FirstTimeStep
  /\ SideCallsLeftOut

\* Variant: an event is counted once for the block, not once for each lane
events_tagged_once(ev, tag) == IF \E ip \in Lanes : ev[ip] = tag THEN 1 ELSE 0

\* Lines 201, 204 and 207: nc, nf and ncompleted count the lanes of each tag
events_tagged(ev, tag) == Cardinality({ip \in Lanes : ev[ip] = tag})

Live(ip) == ~particle_block[ip].dead

\* Lines 158-160 and 349-351: generate_random_numbers is called with the
\* counter c for every lane of the set drawing
Drawn(k, drawing, c) ==
  [ip \in Lanes |-> IF ip \in drawing
                    THEN [k[ip] EXCEPT !.draws = Append(@, c)]
                    ELSE k[ip]]

\* Variant: the counter starts again in every pass
next_counter_restarts(c) == 1

\* Variant: the counter of the random numbers stays where it is
next_counter_stalls(c) == c

\* Line 244, "counter++": the random numbers of this pass are accounted for
next_counter(c) == c + 1

\* handle_particles, lines 118-165: the block's cached data, the time to
\* census and the mean free paths to the first collision
CacheInit ==
  /\ pc = "cache_init"
  /\ \E rn \in [Lanes -> InitDraws] :
       LET r == [ip \in Lanes |->
                   cache_init_lane(particle_block[ip], cache[ip],
                                   0 * BLOCK_SIZE + ip, TRUE, rn[ip])]
       IN  /\ particle_block' = [ip \in Lanes |-> r[ip].p]
           /\ cache' = [ip \in Lanes |-> r[ip].c]
           /\ tally_out' =
                [tally_out EXCEPT
                   !.energy_deposition =
                      [ip \in Lanes |-> IF particle_block[ip].dead THEN @[ip]
                                        ELSE Zero]]
  /\ kernel_calls' = Drawn(kernel_calls, {ip \in Lanes : Live(ip)}, 0)
  /\ counter' = 1
  /\ pc' = "calc_events"
  /\ UNCHANGED <<thread_vars, atomic_vars, main_vars, dt, next_event, nfacets,
                 ncollisions, energy_deposition_tally,
                 side_vars>>

\* lines 170-217: classify every lane, count, and leave the loop when every
\* lane is dead or at census
CalcEvents ==
  /\ pc = "calc_events"
  /\ LET r == [ip \in Lanes |-> calc_events_lane(particle_block[ip], cache[ip])]
         ev == [ip \in Lanes |-> r[ip].next_event]
         nf == events_tagged(ev, PARTICLE_FACET)
         nc == events_tagged(ev, PARTICLE_COLLISION)
         ncompleted == events_tagged(ev, PARTICLE_DEAD) +
                       events_tagged(ev, PARTICLE_CENSUS)
     IN  /\ cache' = [ip \in Lanes |-> r[ip].c]
         /\ next_event' = [ip \in Lanes |-> r[ip].next_event]
         /\ nfacets' = nfacets + nf
         /\ ncollisions' = ncollisions + nc
         /\ pc' = IF ncompleted = BLOCK_SIZE THEN "census" ELSE "collision"
  /\ UNCHANGED <<thread_vars, atomic_vars, main_vars, dt, particle_block, counter,
                 energy_deposition_tally, tally_out, kernel_calls,
                 side_vars>>

\* lines 219-244: the collision kernels, then the counter
Collisions ==
  /\ pc = "collision"
  /\ counter < MaxCounter
  /\ \E rn \in [Lanes -> CollisionDraws] :
       \* a lane that does not collide draws nothing
       /\ \A ip \in Lanes : next_event[ip] # PARTICLE_COLLISION
                               => rn[ip] = FirstCollisionDraw
       /\ LET B == collision_loop(FALSE, 0, DefaultBuild, next_event, rn)
              O == collision_loop(TRUE, 0, TallyOutBuild, next_event, rn)
          IN  /\ particle_block' = B.p
              /\ cache' = B.c
              /\ energy_deposition_tally' = B.t
              /\ kernel_calls' =
                   Drawn(B.k, {ip \in Lanes : next_event[ip] = PARTICLE_COLLISION},
                         counter)
              /\ tally_out' = TallyOutOf(O)
  /\ counter' = next_counter(counter)
  /\ pc' = "tally_out"
  /\ UNCHANGED <<thread_vars, atomic_vars, main_vars, dt, next_event, nfacets, ncollisions,
                 side_vars>>

\* lines 253-272, compiled with TALLY_OUT only: flush the lanes that leave
\* their cell
TallyOut ==
  /\ pc = "tally_out"
  /\ tally_out' = TallyOutOf(tally_out_loop(0, TallyOutBuild, next_event))
  /\ pc' = "facet"
  /\ UNCHANGED <<thread_vars, atomic_vars, main_vars, dt, particle_block, cache,
                 next_event, counter, nfacets,
                 ncollisions, energy_deposition_tally, kernel_calls,
                 side_vars>>

\* lines 274-290: the facet kernels
Facets ==
  /\ pc = "facet"
  /\ LET B == facet_loop(FALSE, 0, DefaultBuild, next_event)
         O == facet_loop(TRUE, 0, TallyOutBuild, next_event)
     IN  /\ particle_block' = B.p
         /\ cache' = B.c
         /\ energy_deposition_tally' = B.t
         /\ kernel_calls' = B.k
         /\ tally_out' = TallyOutOf(O)
  /\ pc' = "calc_events"
  /\ UNCHANGED <<thread_vars, atomic_vars, main_vars, dt, next_event, counter, nfacets, ncollisions,
                 side_vars>>

\* lines 293-309: the census kernels, after the loop
Census ==
  /\ pc = "census"
  /\ LET B == census_loop(0, DefaultBuild, next_event)
         O == census_loop(0, TallyOutBuild, next_event)
     IN  /\ particle_block' = B.p
         /\ cache' = B.c
         /\ energy_deposition_tally' = B.t
         /\ kernel_calls' = B.k
         /\ tally_out' = TallyOutOf(O)
  /\ pc' = "done"
  /\ UNCHANGED <<thread_vars, atomic_vars, main_vars, dt, next_event, counter, nfacets, ncollisions,
                 side_vars>>

Next == CacheInit \/ CalcEvents \/ Collisions \/ TallyOut \/ Facets \/ Census

Spec == Init /\ [][Next]_vars

\* The thread that runs handle_particles keeps executing: no phase of the
\* function waits on anything, so the position in the function moves on
\* whenever it can.  Every phase changes pc, and under Spec every step that
\* changes pc is a step of Next, so the steps of Advance are the steps of Next.
\* The loop body past the modelled iteration count is the one place where the
\* model has no step to offer, and Advance is not enabled there.
Advance ==
  /\ pc # "done"
  /\ pc = "collision" => counter < MaxCounter
  /\ pc' \in {"calc_events", "collision", "tally_out", "facet", "census", "done"}
  /\ pc' # pc

FairSpec == Spec /\ WF_pc(Advance)

(***************************************************************************)
(* The block loop on a particle store that did not come from               *)
(* inject_particles: lane 0 holds a particle whose direction is (0, 0).    *)
(* solve_transport_2d takes the store from its caller as it is.            *)
(***************************************************************************)
InitCorrupted ==
  /\ pc = "cache_init"
  /\ dt \in DtChoices
  /\ \E at \in StepSources, src \in CompanionSources :
       particle_block =
         [ip \in Lanes |->
            IF ip = 0
            THEN inject_particle(at[1][1], at[1][2], <<Zero, Zero>>,
                                 initial_energy, dt)
            ELSE IF ip = 1
            THEN inject_particle(src[1][1], src[1][2], src[2],
                                 initial_energy, dt)
            ELSE inject_particle(VoidSource[1][1], VoidSource[1][2],
                                 VoidSource[2], initial_energy, dt)]
  /\ cache = [ip \in Lanes |-> UninitialisedCache]
  /\ next_event = [ip \in Lanes |-> UNSET]
  /\ counter = 0
  /\ nfacets = 0
  /\ ncollisions = 0
  /\ energy_deposition_tally = ZeroTally
  /\ tally_out = [energy_deposition |-> [ip \in Lanes |-> Zero],
                  energy_deposition_tally |-> ZeroTally]
  /\ kernel_calls = NoKernelCalled
  /\ OneThreadOneBlock
  /\ NoWorkerInUpdate
  /\ FirstTimeStep
  /\ SideCallsLeftOut

SpecCorrupted == InitCorrupted /\ [][Next]_vars

(***************************************************************************)
(* Properties of the block event loop                                      *)
(***************************************************************************)

\* The classification has just run: the loop goes on, or has been left
Classified == pc \in {"collision", "census"}

Dist(ip) == lane_distances(particle_block[ip], cache[ip])

\* C1: the event loop of a block is left, and when it is left every lane is
\* tagged PARTICLE_DEAD or PARTICLE_CENSUS.
C1_LoopExits ==
  <>(pc = "done" /\
     \A ip \in Lanes : next_event[ip] \in {PARTICLE_DEAD, PARTICLE_CENSUS})

\* C1 witness: the loop is left after several iterations, with one lane dead
\* and another at census
C1_Witness ==
  /\ pc = "done"
  /\ counter >= 4
  /\ \E ip \in Lanes : next_event[ip] = PARTICLE_DEAD /\ ~(ip = 1)
  /\ \E ip \in Lanes : next_event[ip] = PARTICLE_CENSUS

(***************************************************************************)
(* The classification                                                      *)
(***************************************************************************)
CollisionWins(d) ==
  /\ RLt(d.distance_to_collision, d.distance_to_facet)
  /\ RLt(d.distance_to_collision, d.distance_to_census)

FacetWins(d) == ~CollisionWins(d) /\ RLt(d.distance_to_facet, d.distance_to_census)

TagsFollowComparisons ==
  Classified =>
    \A ip \in Lanes : Live(ip) =>
      /\ next_event[ip] = PARTICLE_COLLISION <=> CollisionWins(Dist(ip))
      /\ next_event[ip] = PARTICLE_FACET <=> FacetWins(Dist(ip))
      /\ next_event[ip] = PARTICLE_CENSUS <=>
           (~CollisionWins(Dist(ip)) /\ ~FacetWins(Dist(ip)))

\* C3 as the specification states it: the tags follow the comparisons, and
\* consequently a FACET lane has d_facet < d_census and d_facet <= d_coll, and
\* a CENSUS lane has d_census <= d_facet and d_census <= d_coll.
C3_AsStated ==
  /\ TagsFollowComparisons
  /\ Classified =>
       \A ip \in Lanes : Live(ip) =>
         /\ next_event[ip] = PARTICLE_FACET =>
              /\ RLt(Dist(ip).distance_to_facet, Dist(ip).distance_to_census)
              /\ RLe(Dist(ip).distance_to_facet, Dist(ip).distance_to_collision)
         /\ next_event[ip] = PARTICLE_CENSUS =>
              /\ RLe(Dist(ip).distance_to_census, Dist(ip).distance_to_facet)
              /\ RLe(Dist(ip).distance_to_census, Dist(ip).distance_to_collision)

\* C3: a live lane is tagged COLLISION iff d_coll < d_facet and
\* d_coll < d_census, otherwise FACET iff d_facet < d_census, otherwise
\* CENSUS.  A FACET lane has d_facet < d_census, and d_facet <= d_coll unless
\* d_coll is not a number; a CENSUS lane has d_census <= d_facet and
\* d_census <= d_coll unless the distance compared with is not a number.
C3_Classification ==
  /\ TagsFollowComparisons
  /\ Classified =>
       \A ip \in Lanes : Live(ip) =>
         /\ next_event[ip] = PARTICLE_FACET =>
              /\ RLt(Dist(ip).distance_to_facet, Dist(ip).distance_to_census)
              /\ \/ RLe(Dist(ip).distance_to_facet, Dist(ip).distance_to_collision)
                 \/ IsNaN(Dist(ip).distance_to_collision)
         /\ next_event[ip] = PARTICLE_CENSUS =>
              /\ \/ RLe(Dist(ip).distance_to_census, Dist(ip).distance_to_facet)
                 \/ IsNaN(Dist(ip).distance_to_facet)
              /\ \/ RLe(Dist(ip).distance_to_census, Dist(ip).distance_to_collision)
                 \/ IsNaN(Dist(ip).distance_to_collision)

\* C3 witness: a lane is tagged CENSUS while its distance to collision is not
\* a number, next to a lane that is tagged FACET with d_facet <= d_coll
C3_Witness ==
  /\ Classified
  /\ \E ip \in Lanes :
       /\ Live(ip)
       /\ next_event[ip] = PARTICLE_CENSUS
       /\ IsNaN(Dist(ip).distance_to_collision)
  /\ \E ip \in Lanes :
       /\ Live(ip)
       /\ next_event[ip] = PARTICLE_FACET
       /\ RLe(Dist(ip).distance_to_facet, Dist(ip).distance_to_collision)

Tie(ip) ==
  /\ Live(ip)
  /\ Dist(ip).distance_to_collision = Dist(ip).distance_to_facet
  /\ IsFinite(Dist(ip).distance_to_collision)
  /\ RLt(Dist(ip).distance_to_collision, Dist(ip).distance_to_census)

\* C4 as the specification states it: when d_coll = d_facet, both below
\* d_census, the next event is a collision.
C4_AsStated ==
  Classified =>
    \A ip \in Lanes : Tie(ip) => next_event[ip] = PARTICLE_COLLISION

\* C4: when the distance to collision equals the distance to the facet, both
\* below the distance to census, the lane's next event is the facet crossing.
C4_TieIsFacet ==
  Classified =>
    \A ip \in Lanes : Tie(ip) => next_event[ip] = PARTICLE_FACET

\* C4 witness: a lane is classified with d_coll = d_facet < d_census
C4_Witness == Classified /\ \E ip \in Lanes : Tie(ip) /\ next_event[ip] = PARTICLE_FACET

(***************************************************************************)
(* The facet crossing                                                      *)
(***************************************************************************)
FacetStep == pc = "facet" /\ pc' = "calc_events"

Outward(omega, cell, global_n) ==
  \/ cell = 0 /\ RLt(omega, Zero)
  \/ cell = global_n - 1 /\ RLt(Zero, omega)

\* What the specification states of one axis of a facet crossing
ReflectsOrMoves(omega, cell, global_n, omega_after, cell_after) ==
  IF Outward(omega, cell, global_n)
  THEN omega_after = RNeg(omega) /\ cell_after = cell
  ELSE omega_after = omega /\ cell_after = cell + Sign(omega[1])

\* C5 as the specification states it: on an x-facet crossing omega_x is
\* negated, with cellx unchanged, iff the particle is at the global boundary
\* moving outward; otherwise omega_x is unchanged and cellx moves by one in
\* the direction of omega_x.  The same for y-facets.
C5_AsStated ==
  [][FacetStep =>
       \A ip \in Lanes : next_event[ip] = PARTICLE_FACET =>
         IF cache[ip].x_facet
         THEN ReflectsOrMoves(particle_block[ip].omega_x, particle_block[ip].cellx,
                              global_nx, particle_block'[ip].omega_x,
                              particle_block'[ip].cellx)
         ELSE ReflectsOrMoves(particle_block[ip].omega_y, particle_block[ip].celly,
                              global_ny, particle_block'[ip].omega_y,
                              particle_block'[ip].celly)]_vars

(***************************************************************************)
(* The invariants of the loop head                                         *)
(***************************************************************************)
LoopHead == pc = "calc_events"

Within(edge, cell, pos) ==
  /\ RLe(RSub(At(edge, cell + pad), OPEN_BOUND_CORRECTION), pos)
  /\ RLe(pos, RAdd(At(edge, cell + pad + 1), OPEN_BOUND_CORRECTION))

\* C6 as the specification states it: at every loop head the cell indices of
\* a live particle name the cell whose edges contain its position, up to
\* OPEN_BOUND_CORRECTION.
C6_AsStated ==
  LoopHead =>
    \A ip \in Lanes : Live(ip) =>
      /\ Within(edgex, particle_block[ip].cellx - x_off, particle_block[ip].x)
      /\ Within(edgey, particle_block[ip].celly - y_off, particle_block[ip].y)

\* C7: every cell index a particle holds satisfies 0 <= cellx < global_nx and
\* 0 <= celly < global_ny.
C7_CellInRange ==
  \A ip \in Lanes :
    /\ particle_block[ip].cellx \in 0 .. (global_nx - 1)
    /\ particle_block[ip].celly \in 0 .. (global_ny - 1)

\* C7 witness: a particle has met the last facet of the mesh in y, another
\* facet has been crossed too, and the indices are those of a cell
C7_Witness ==
  /\ LoopHead
  /\ nfacets >= 2
  /\ \E ip \in Lanes :
       /\ Live(ip)
       /\ particle_block[ip].y = At(edgey, global_ny + pad)
       /\ particle_block[ip].celly \in 0 .. (global_ny - 1)

\* C8: at every loop head 0 <= mfp_to_collision and 0 <= dt_to_census.
C8_NonNegative ==
  LoopHead =>
    \A ip \in Lanes :
      /\ RLe(Zero, particle_block[ip].mfp_to_collision)
      /\ RLe(Zero, particle_block[ip].dt_to_census)

\* C8 witness: after collisions and facet crossings a particle is at the loop
\* head with no mean free path left, and another with some left
C8_Witness ==
  /\ LoopHead
  /\ ncollisions >= 1
  /\ nfacets >= 1
  /\ \E ip \in Lanes : Live(ip) /\ particle_block[ip].mfp_to_collision = Zero
  /\ \E ip \in Lanes : Live(ip) /\ RLt(Zero, particle_block[ip].mfp_to_collision)
                                /\ RLt(particle_block[ip].dt_to_census, dt)

(***************************************************************************)
(* The two tally builds                                                    *)
(***************************************************************************)
\* C10 as the specification states it: the atomic build and the TALLY_OUT
\* build end the block with the same tally in every cell.
C10_AsStated ==
  pc = "done" => energy_deposition_tally = tally_out.energy_deposition_tally

(***************************************************************************)
(* The random number counter, the death of a particle, the event counters  *)
(***************************************************************************)
\* The kernels lane ip has been through in this call
OwnEvents(ip) == kernel_calls[ip].collision + kernel_calls[ip].facet

\* C12: the key of a lane is its particle's number, and the counter a lane
\* draws its collision with is one more than the number of events of that
\* lane's own particle so far, whatever the other lanes of the block do.
C12_OwnCounter ==
  /\ pc # "cache_init" =>
       \A ip \in Lanes : Live(ip) => cache[ip].key = 0 * BLOCK_SIZE + ip
  /\ pc = "collision" =>
       \A ip \in Lanes : next_event[ip] = PARTICLE_COLLISION =>
         counter = 1 + OwnEvents(ip)

\* C12 witness: a lane collides after two events of its own, in a block whose
\* other lane was dead from the start, or has been through fewer events
C12_Witness ==
  /\ pc = "collision"
  /\ \E ip, jp \in Lanes :
       /\ ip # jp
       /\ next_event[ip] = PARTICLE_COLLISION
       /\ OwnEvents(ip) >= 2
       /\ kernel_calls[ip].facet >= 1
       /\ OwnEvents(jp) < OwnEvents(ip)

\* The collision of this step took the absorption branch for lane ip: only
\* there is the weight changed
Absorbed(ip) == particle_block'[ip].weight # particle_block[ip].weight

\* C14: a particle is marked dead exactly in a collision that takes the
\* absorption branch with the energy below MIN_ENERGY_OF_INTEREST; a dead
\* particle stays dead, goes through no further kernel and keeps every field.
C14_DeadIsFinal ==
  [][\A ip \in Lanes :
       /\ particle_block[ip].dead =>
            /\ particle_block'[ip] = particle_block[ip]
            /\ kernel_calls'[ip] = kernel_calls[ip]
       /\ (~particle_block[ip].dead /\ particle_block'[ip].dead) <=>
            /\ pc = "collision"
            /\ next_event[ip] = PARTICLE_COLLISION
            /\ Absorbed(ip)
            /\ RLt(particle_block[ip].energy, MIN_ENERGY_OF_INTEREST)]_vars

\* C14 witness: a particle that died in a collision of this call is still as
\* it died while another lane of the block goes on with its events
C14_Witness ==
  /\ pc = "facet"
  /\ \E ip, jp \in Lanes :
       /\ particle_block[ip].dead
       /\ kernel_calls[ip].collision >= 1
       /\ next_event[ip] = PARTICLE_DEAD
       /\ next_event[jp] = PARTICLE_FACET

\* The times of lane ip to the x facet and to the y facet of its cell
TimeToXFacet(ip) ==
  facet_dt_x(particle_block[ip].x, particle_block[ip].omega_x,
             RInv(RMul(particle_block[ip].omega_x, cache[ip].speed)),
             particle_block[ip].cellx)

TimeToYFacet(ip) ==
  facet_dt_y(particle_block[ip].y, particle_block[ip].omega_y,
             RInv(RMul(particle_block[ip].omega_y, cache[ip].speed)),
             particle_block[ip].celly)

\* Lane ip is as far in time from the x facet as from the y facet
FacetTie(ip) ==
  /\ Live(ip)
  /\ IsFinite(TimeToXFacet(ip))
  /\ TimeToXFacet(ip) = TimeToYFacet(ip)

\* C25 as stated: when the time to the x facet equals the time to the y
\* facet, calc_distance_to_facet declares an x facet (x_facet = 1)
C25_AsStated ==
  Classified => \A ip \in Lanes : FacetTie(ip) => cache[ip].x_facet

\* C25: when the time to the x facet equals the time to the y facet,
\* calc_distance_to_facet declares a y facet (x_facet = 0), and the distance
\* is the one both facets are at
C25_TieIsYFacet ==
  Classified =>
    \A ip \in Lanes :
      FacetTie(ip) =>
        /\ ~cache[ip].x_facet
        /\ cache[ip].distance_to_facet =
             RMul(TimeToYFacet(ip), cache[ip].speed)

\* calc_distance_to_facet has answered for a lane at equal times from both
\* facets: a y facet, at the distance of both
C25_Witness ==
  /\ Classified
  /\ \E ip \in Lanes :
       /\ FacetTie(ip)
       /\ ~cache[ip].x_facet
       /\ IsFinite(cache[ip].distance_to_facet)
       /\ RLt(Zero, cache[ip].distance_to_facet)

\* The direction of lane ip has both components exactly 0
Degenerate(ip) ==
  particle_block[ip].omega_x = Zero /\ particle_block[ip].omega_y = Zero

\* C24: a particle whose direction is (0, 0) is rejected with a fatal error
\* and is not transported: no kernel is ever run on it
C24_AsStated ==
  \A ip \in Lanes :
    Degenerate(ip) => OwnEvents(ip) + kernel_calls[ip].census = 0

\* The counters of the draws made so far for lane ip
Draws(ip) == kernel_calls[ip].draws

\* C30: the draw of the block initialisation is made with counter 0; the
\* counter goes up by one in each pass of the loop, in its collision phase,
\* and nowhere else, and every lane that collides in the pass draws with the
\* value it had before; so the counters of a lane's draws go up strictly and
\* no (particle_key, master_key, counter) is used for two draws
C30_CounterPerPass ==
  [][/\ pc = "cache_init" =>
          /\ counter' = 1
          /\ \A ip \in Lanes :
               Draws(ip)' = IF Live(ip) THEN <<0>> ELSE <<>>
     /\ pc = "collision" =>
          /\ counter' = counter + 1
          /\ \A ip \in Lanes :
               Draws(ip)' = IF next_event[ip] = PARTICLE_COLLISION
                            THEN Append(Draws(ip), counter)
                            ELSE Draws(ip)
     /\ pc \notin {"cache_init", "collision"} =>
          /\ counter' = counter
          /\ \A ip \in Lanes : Draws(ip)' = Draws(ip)
     /\ \A ip \in Lanes :
          \A i, j \in 1 .. Len(Draws(ip)') :
            i < j => Draws(ip)'[i] < Draws(ip)'[j]]_vars

\* Both lanes have collided in the second pass, each with counter 2
C30_Witness ==
  /\ pc = "tally_out"
  /\ counter = 3
  /\ \A ip \in Lanes :
       /\ Len(Draws(ip)) >= 2
       /\ Draws(ip)[Len(Draws(ip))] = 2

\* The lane's facet kernel runs in this step
FacetRuns(ip) == pc = "facet" /\ next_event[ip] = PARTICLE_FACET

\* The change of a cell index in this step, as a distance
CellStep(a, b) == IF a >= b THEN a - b ELSE b - a

\* C33: a facet event leaves the particle's energy, weight and dead flag and
\* the microscopic cross sections as they are, changes at most one of cellx
\* and celly and by at most 1, and the local density, the number density and
\* the macroscopic cross sections cached afterwards are those of the cell the
\* particle is in afterwards.
C33_FacetFrame ==
  [][\A ip \in Lanes : FacetRuns(ip) =>
       /\ particle_block'[ip].energy = particle_block[ip].energy
       /\ particle_block'[ip].weight = particle_block[ip].weight
       /\ particle_block'[ip].dead = particle_block[ip].dead
       /\ cache'[ip].microscopic_cs_scatter = cache[ip].microscopic_cs_scatter
       /\ cache'[ip].microscopic_cs_absorb = cache[ip].microscopic_cs_absorb
       /\ CellStep(particle_block'[ip].cellx, particle_block[ip].cellx)
            + CellStep(particle_block'[ip].celly, particle_block[ip].celly) <= 1
       /\ cache'[ip].local_density =
            At(density, (particle_block'[ip].celly - y_off) * nx
                          + (particle_block'[ip].cellx - x_off))
       /\ cache'[ip].number_density =
            RDiv(RMul(cache'[ip].local_density, AVOGADROS), MOLAR_MASS)
       /\ cache'[ip].macroscopic_cs_scatter =
            RMul(RMul(cache'[ip].number_density,
                      cache[ip].microscopic_cs_scatter), BARNS)
       /\ cache'[ip].macroscopic_cs_absorb =
            RMul(RMul(cache'[ip].number_density,
                      cache[ip].microscopic_cs_absorb), BARNS)]_vars

\* C33 witness: a lane has just been through a facet into a cell of another
\* density than the source cells', and its cache holds that density
C33_Witness ==
  /\ pc = "calc_events"
  /\ \E ip \in Lanes :
       /\ next_event[ip] = PARTICLE_FACET
       /\ kernel_calls[ip].facet >= 1
       /\ cache[ip].local_density # One
       /\ cache[ip].local_density =
            At(density, (particle_block[ip].celly - y_off) * nx
                          + (particle_block[ip].cellx - x_off))

\* The lane was tagged CENSUS or DEAD by the last classification
Inactive(ip) == next_event[ip] \in {PARTICLE_CENSUS, PARTICLE_DEAD}

\* C29: a lane tagged CENSUS or DEAD is inactive until the block exits: the
\* later passes of the loop change none of its particle fields and every
\* later classification gives it the same tag; the census kernel runs at the
\* block exit only, once for each lane at census, and leaves dt_to_census = 0
C29_InactiveUntilExit ==
  [][\A ip \in Lanes :
       /\ kernel_calls[ip].census = 0
       /\ (Inactive(ip) /\ pc # "census") =>
            /\ particle_block'[ip] = particle_block[ip]
            /\ next_event'[ip] = next_event[ip]
            /\ kernel_calls'[ip] = kernel_calls[ip]
       /\ pc = "census" =>
            /\ next_event'[ip] = next_event[ip]
            /\ kernel_calls'[ip].census =
                 IF next_event[ip] = PARTICLE_CENSUS THEN 1 ELSE 0
            /\ next_event[ip] = PARTICLE_CENSUS =>
                 particle_block'[ip].dt_to_census = Zero
            /\ next_event[ip] = PARTICLE_DEAD =>
                 particle_block'[ip] = particle_block[ip]]_vars

\* A lane was at census while another lane went on for two more passes, and
\* the block has exited
C29_Witness ==
  /\ pc = "done"
  /\ \E ip, jp \in Lanes :
       /\ OwnEvents(ip) = 0
       /\ kernel_calls[ip].census = 1
       /\ particle_block[ip].dt_to_census = Zero
       /\ OwnEvents(jp) >= 2

RECURSIVE CallsFrom(_, _)
CallsFrom(kernel, ip) ==
  IF ip = BLOCK_SIZE THEN 0
  ELSE kernel_calls[ip][kernel] + CallsFrom(kernel, ip + 1)

\* C20: whenever the kernels of an iteration have run, and after the call,
\* the facet counter is the number of facet kernels executed and the
\* collision counter the number of collision kernels executed, over all lanes.
C20_CountersCountKernels ==
  pc \in {"calc_events", "census", "done"} =>
    /\ nfacets = CallsFrom("facet", 0)
    /\ ncollisions = CallsFrom("collision", 0)

\* C20 witness: the call is over, both lanes went through facets, and there
\* were collisions
C20_Witness ==
  /\ pc = "done"
  /\ \A ip \in Lanes : kernel_calls[ip].facet >= 1
  /\ ncollisions >= 2
  /\ nfacets >= 3

(***************************************************************************)
(* main: the loop over the time steps.  Each iteration clears the event    *)
(* counters, calls solve_transport_2d on the particles the last iteration  *)
(* left, and adds the time step to the elapsed time.  The loop is followed *)
(* for one block in the hands of one thread, for every problem of          *)
(* Problems.                                                               *)
(***************************************************************************)
MaxSteps == 2
niters == MaxSteps
sim_end == R(5)

\* main.c lines 94-104 against neutral.c lines 20-29: the call lists
\* mesh.pad fifth and "&master_key" eleventh, the definition has master_key
\* fifth and by value.  The parameter is bound by position in one build and
\* by name in the other.
MasterKeyBindings == {"mesh.pad", "&master_key"}

master_key_argument ==
  [argument |-> key_binding,
   value |-> IF key_binding = "mesh.pad" THEN pad ELSE master_key]

InitSteps ==
  /\ pc = "loop"
  /\ problem \in Problems
  /\ tt = 1
  /\ master_key = 1
  /\ key_binding \in MasterKeyBindings
  /\ keys_used = <<>>
  /\ dt \in DtChoices
  /\ \E src \in StepSources :
       particle_block =
         [ip \in Lanes |->
            IF ip = 0
            THEN inject_particle(src[1][1], src[1][2], src[2], initial_energy, dt)
            ELSE inject_particle(VoidSource[1][1], VoidSource[1][2],
                                 VoidSource[2], initial_energy, dt)]
  /\ cache = [ip \in Lanes |-> UninitialisedCache]
  /\ next_event = [ip \in Lanes |-> UNSET]
  /\ counter = 0
  /\ nfacets = 0
  /\ ncollisions = 0
  /\ energy_deposition_tally = ZeroTally
  /\ tally_out = [energy_deposition |-> [ip \in Lanes |-> Zero],
                  energy_deposition_tally |-> ZeroTally]
  /\ kernel_calls = NoKernelCalled
  /\ nthreads = 1
  /\ nparticles_to_process \in {0, BLOCK_SIZE}
  /\ thread_b = [tid \in {0} |-> 0]
  /\ blocks_run = [bid \in {0} |-> 0]
  /\ NoWorkerInUpdate
  /\ SideCallsLeftOut

\* main.c lines 82-93: the head of an iteration
BeginStep ==
  /\ pc = "loop"
  /\ nfacets' = 0
  /\ ncollisions' = 0
  /\ pc' = "solve"
  /\ UNCHANGED <<thread_vars, atomic_vars, main_vars, dt, particle_block, cache,
                 next_event, counter, energy_deposition_tally, tally_out,
                 kernel_calls,
                 side_vars>>

\* Variant: the test for an empty particle store never succeeds
out_of_particles_never(nparticles) == nparticles < 0

\* neutral.c line 31, "if ((*nparticles) == 0)"
out_of_particles(nparticles) == nparticles = 0

\* main.c lines 94-104 and neutral.c lines 20-40: the call, the early return
\* and the entry into handle_particles, whose arrays and counter are new
SolveTransport2d ==
  /\ pc = "solve"
  /\ keys_used' = Append(keys_used, master_key_argument)
  /\ IF out_of_particles(nparticles_to_process)
     THEN /\ pc' = "done"
          /\ UNCHANGED <<cache, next_event, counter, kernel_calls,
                 side_vars>>
     ELSE /\ pc' = "cache_init"
          /\ cache' = [ip \in Lanes |-> UninitialisedCache]
          /\ next_event' = [ip \in Lanes |-> UNSET]
          /\ counter' = 0
          /\ kernel_calls' = NoKernelCalled
  /\ UNCHANGED <<thread_vars, atomic_vars, problem, tt, master_key, key_binding,
                 dt, particle_block, nfacets, ncollisions,
                 energy_deposition_tally, tally_out,
                 side_vars>>

\* main.c line 118: the simulated time after the iteration tt
elapsed_sim_time == RMul(R(tt), dt)

\* main.c lines 106-140 and the loop header of line 82: the end of an
\* iteration.  Nothing here writes master_key.
EndStep ==
  /\ pc = "done"
  /\ IF RGe(elapsed_sim_time, sim_end) \/ tt + 1 > niters
     THEN pc' = "exit" /\ tt' = tt
     ELSE pc' = "loop" /\ tt' = tt + 1
  /\ UNCHANGED <<block_vars_but_pc, thread_vars, atomic_vars, problem,
                 master_key, key_binding, keys_used,
                 side_vars>>

NextSteps ==
  \/ BeginStep
  \/ SolveTransport2d
  \/ CacheInit
  \/ CalcEvents
  \/ Collisions
  \/ TallyOut
  \/ Facets
  \/ Census
  \/ EndStep

SpecSteps == InitSteps /\ [][NextSteps]_vars

(***************************************************************************)
(* Properties of the time-step loop                                        *)
(***************************************************************************)
\* C13: the caller increments master_key between time steps, so no two
\* time steps hand the same master_key to solve_transport_2d
C13_AsStated ==
  nparticles_to_process # 0 =>
    \A i, j \in 1 .. Len(keys_used) :
      i # j => keys_used[i].value # keys_used[j].value

\* C15: with no scattering and a positive absorption cross section every
\* particle is marked dead after a bounded number of events, so the run of
\* the pure absorber ends with every particle dead
C15_AsStated ==
  (problem = AbsorberProblem /\ nparticles_to_process # 0 /\ pc = "exit")
    => \A ip \in Lanes : particle_block[ip].dead

\* A time step of the void: no density and no cross section anywhere
VoidRun == problem = VoidProblem /\ nparticles_to_process # 0

\* The first classification of the call has been made and nothing has moved
FirstEvent == Classified /\ counter = 1

\* C16 as stated: in the void every particle's first event is census, so
\* the step ends with no collision and no facet counted
C16_AsStated ==
  (VoidRun /\ pc = "done") => (ncollisions = 0 /\ nfacets = 0)

\* C16: in the void no lane ever collides or dies and a step ends with
\* every lane at census after facet events only; the first event of a lane is
\* census exactly when no facet of its cell is nearer than speed * dt
C16_NoCollisionInVoid ==
  VoidRun =>
    /\ ncollisions = 0
    /\ \A ip \in Lanes :
         kernel_calls[ip].collision = 0 /\ ~particle_block[ip].dead
    /\ pc = "done" =>
         \A ip \in Lanes : /\ next_event[ip] = PARTICLE_CENSUS
                           /\ kernel_calls[ip].census = 1
    /\ FirstEvent =>
         \A ip \in Lanes :
           next_event[ip] = PARTICLE_CENSUS <=>
             ~RLt(Dist(ip).distance_to_facet, Dist(ip).distance_to_census)

\* A step of the void that ended with facets counted and no collision
C16_Witness ==
  /\ VoidRun
  /\ pc = "done"
  /\ nfacets > 0
  /\ ncollisions = 0
  /\ \A ip \in Lanes : next_event[ip] = PARTICLE_CENSUS

\* C17: with zero cross sections every contribution computed by
\* calculate_energy_deposition is exactly 0, so the tally is exactly zero in
\* every cell after the step
C17_AsStated ==
  (VoidRun /\ pc = "done") => energy_deposition_tally = ZeroTally

\* The block initialisation of a time step after the first
LaterCacheInit == pc = "cache_init" /\ tt > 1 /\ pc' = "calc_events"

\* C18: a particle that reached census starts the next time step with the
\* position, direction, energy, weight, cell and mfp_to_collision that the
\* census event left; only dt_to_census is set again
C18_AsStated ==
  [][LaterCacheInit =>
       \A ip \in Lanes :
         Live(ip) =>
           [particle_block'[ip] EXCEPT !.dt_to_census = dt] =
             [particle_block[ip] EXCEPT !.dt_to_census = dt]]_vars

\* solve_transport_2d is called on an empty particle store
EmptyCall == pc = "solve" /\ nparticles_to_process = 0

\* C19: called with *nparticles = 0, solve_transport_2d returns without
\* running the block loop: no kernel is called, and the tally, the facet and
\* collision counters and the particle store are as they were
C19_EmptyStoreReturns ==
  [][EmptyCall =>
       /\ pc' = "done"
       /\ UNCHANGED <<particle_block, energy_deposition_tally, tally_out,
                      nfacets, ncollisions, kernel_calls, cache, next_event,
                      counter,
                 side_vars>>]_vars

\* The second call on an empty store has returned
C19_Witness ==
  /\ nparticles_to_process = 0
  /\ pc = "done"
  /\ tt = 2
  /\ Len(keys_used) = 2
  /\ kernel_calls = NoKernelCalled
  /\ energy_deposition_tally = ZeroTally

(***************************************************************************)
(* The blocks of a call across the threads (handle_particles, lines 54-64  *)
(* and 78-102).  What happens inside a block is the block loop above; here *)
(* a block is run in one step and only which blocks are run is followed.   *)
(***************************************************************************)
MaxThreads == 3
MaxBlocks == 7

nb == nparticles_to_process \div BLOCK_SIZE
nb_per_thread == nb \div nthreads
nb_remainder == nb % nthreads
Threads == 0 .. (nthreads - 1)
\* Variant: the offset of a thread is its number
thread_block_off_is_tid(tid) == tid

thread_block_off(tid) == tid * nb_per_thread

BlockLoopLeftOut ==
  /\ pc = "left_out"
  /\ dt = Zero
  /\ particle_block = <<>>
  /\ cache = <<>>
  /\ next_event = <<>>
  /\ counter = 0
  /\ nfacets = 0
  /\ ncollisions = 0
  /\ energy_deposition_tally = <<>>
  /\ tally_out = <<>>
  /\ kernel_calls = <<>>

InitThreads ==
  /\ nthreads \in 1 .. MaxThreads
  /\ nparticles_to_process \in {k * BLOCK_SIZE : k \in 0 .. MaxBlocks}
  /\ thread_b = [tid \in Threads |-> 0]
  /\ blocks_run = [bid \in 0 .. (nb - 1) |-> 0]
  /\ BlockLoopLeftOut
  /\ NoWorkerInUpdate
  /\ FirstTimeStep
  /\ SideCallsLeftOut

\* One iteration of "for (int b = 0; b < nb_per_thread; ++b)" in thread tid
RunBlock(tid) ==
  /\ thread_b[tid] < nb_per_thread
  /\ LET bid == thread_block_off(tid) + thread_b[tid]
     IN  blocks_run' = [blocks_run EXCEPT ![bid] = @ + 1]
  /\ thread_b' = [thread_b EXCEPT ![tid] = @ + 1]
  /\ UNCHANGED <<nthreads, nparticles_to_process, block_vars, atomic_vars,
                 main_vars,
                 side_vars>>

NextThreads == \E tid \in Threads : RunBlock(tid)

SpecThreads == InitThreads /\ [][NextThreads]_vars

ThreadsDone == \A tid \in Threads : thread_b[tid] = nb_per_thread

\* C2 as the specification states it: when the threads have left their
\* loops, every one of the nparticles_to_process/BLOCK_SIZE blocks has been
\* run, whatever the number of threads.
C2_AsStated ==
  ThreadsDone => \A bid \in 0 .. (nb - 1) : blocks_run[bid] >= 1

\* The energy the loop of block bid adds to the tally when it is run: the
\* blocks hold different particles, and every block holds some in material
block_energy(bid) == R(bid + 1)

\* The grand sum of the tally after the call: what the blocks that were run
\* have added, from block bid on
RECURSIVE GrandSumFrom(_)
GrandSumFrom(bid) ==
  IF bid >= nb THEN Zero
  ELSE RAdd(RMul(R(blocks_run[bid]), block_energy(bid)), GrandSumFrom(bid + 1))

\* The grand sum one worker leaves: its nb_per_thread is nb, and it runs the
\* blocks 0 .. nb-1 once each
RECURSIVE OneWorkerSumFrom(_)
OneWorkerSumFrom(bid) ==
  IF bid >= nb THEN Zero
  ELSE RAdd(block_energy(bid), OneWorkerSumFrom(bid + 1))

\* C11 as the specification states it: the grand sum of the tally after the
\* call is the one a single worker leaves, for every number of workers.
C11_AsStated == ThreadsDone => GrandSumFrom(0) = OneWorkerSumFrom(0)

\* The blocks of thread tid: bid = thread_block_off + b for b < nb_per_thread
BlockRange(tid) ==
  {thread_block_off(tid) + b : b \in 0 .. (nb_per_thread - 1)}

\* C28: the block ranges of distinct workers are disjoint, each lies in the
\* blocks of the call, and no block is processed by two workers (or twice)
C28_DisjointRanges ==
  /\ \A t1, t2 \in Threads : t1 # t2 => BlockRange(t1) \cap BlockRange(t2) = {}
  /\ \A tid \in Threads : BlockRange(tid) \subseteq 0 .. (nb - 1)
  /\ \A bid \in DOMAIN blocks_run :
       /\ blocks_run[bid] <= 1
       /\ blocks_run[bid] = 1 =>
            \E tid \in Threads :
              /\ bid \in BlockRange(tid)
              /\ bid < thread_block_off(tid) + thread_b[tid]

\* Three workers have each run the two blocks of their range
C28_Witness ==
  /\ nthreads = 3
  /\ nb_per_thread = 2
  /\ ThreadsDone
  /\ \A tid \in Threads : \A bid \in BlockRange(tid) : blocks_run[bid] = 1

(***************************************************************************)
(* update_tallies with MANUAL_ATOMIC (lines 502-523): workers add to the   *)
(* tally words at the same time.                                           *)
(***************************************************************************)
NWorkers == 2
NTallyWords == 2

Workers == 0 .. (NWorkers - 1)
TallyWords == 0 .. (NTallyWords - 1)
Addends == {One, <<1, 2>>}
NotAStoredValue == R(7)

\* __sync_val_compare_and_swap(ptr, oldval, newval) on the word mem: the
\* word afterwards, and the value returned
sync_val_compare_and_swap_blind(mem, oldval, newval) ==
  [mem |-> newval, ret |-> oldval]

\* Variant: the value returned is the word after the operation
sync_val_compare_and_swap_new(mem, oldval, newval) ==
  [mem |-> IF mem = oldval THEN newval ELSE mem,
   ret |-> IF mem = oldval THEN newval ELSE mem]

sync_val_compare_and_swap(mem, oldval, newval) ==
  [mem |-> IF mem = oldval THEN newval ELSE mem, ret |-> mem]

PartitionLeftOut ==
  /\ nthreads = NWorkers
  /\ nparticles_to_process = 0
  /\ thread_b = <<>>
  /\ blocks_run = <<>>

InitTally ==
  /\ tally_before \in [TallyWords -> {Zero, One}]
  /\ tally_word = tally_before
  /\ w_cell \in [Workers -> TallyWords]
  /\ w_tally \in [Workers -> Addends]
  /\ w_pc = [w \in Workers |-> "read"]
  /\ w_old1 = [w \in Workers |-> Zero]
  /\ w_attempts = [w \in Workers |-> 0]
  /\ BlockLoopLeftOut
  /\ PartitionLeftOut
  /\ FirstTimeStep
  /\ SideCallsLeftOut

\* Line 516, "uint64_t old1 = *ptr": a plain read of a word that other
\* workers swap at the same time.  It yields the word, or the word as it was
\* before, or bits that were never stored.
ReadWord(w) ==
  /\ w_pc[w] = "read"
  /\ \E v \in {tally_word[w_cell[w]], tally_before[w_cell[w]], NotAStoredValue} :
       w_old1' = [w_old1 EXCEPT ![w] = v]
  /\ w_pc' = [w_pc EXCEPT ![w] = "cas"]
  /\ UNCHANGED <<tally_word, tally_before, w_cell, w_tally, w_attempts,
                 block_vars, thread_vars, main_vars,
                 side_vars>>

\* Lines 518-523: one turn of the do-while loop
CompareAndSwap(w) ==
  /\ w_pc[w] = "cas"
  /\ LET old0 == w_old1[w]
         new == RAdd(old0, w_tally[w])
         r == sync_val_compare_and_swap(tally_word[w_cell[w]], old0, new)
     IN  /\ tally_word' = [tally_word EXCEPT ![w_cell[w]] = r.mem]
         /\ w_old1' = [w_old1 EXCEPT ![w] = r.ret]
         /\ w_pc' = [w_pc EXCEPT ![w] = IF old0 # r.ret THEN "cas" ELSE "done"]
  /\ w_attempts' = [w_attempts EXCEPT ![w] = @ + 1]
  /\ UNCHANGED <<tally_before, w_cell, w_tally, block_vars, thread_vars,
                 main_vars,
                 side_vars>>

NextTally == \E w \in Workers : ReadWord(w) \/ CompareAndSwap(w)

SpecTally == InitTally /\ [][NextTally]_vars

\* The calls of update_tallies on a tally that is still all zero, as the
\* time step starts
InitTallyFromZero ==
  /\ InitTally
  /\ tally_before = [c \in TallyWords |-> Zero]

\* Each worker is a running thread: it goes on with its call
FairSpecTally ==
  /\ InitTallyFromZero
  /\ [][NextTally]_vars
  /\ \A w \in Workers : WF_vars(ReadWord(w) \/ CompareAndSwap(w))

RECURSIVE AddedTo(_, _)
AddedTo(c, w) ==
  IF w = NWorkers THEN Zero
  ELSE RAdd(IF w_cell[w] = c THEN w_tally[w] ELSE Zero, AddedTo(c, w + 1))

WorkersDone == \A w \in Workers : w_pc[w] = "done"

\* The compare-and-swaps of worker w that have failed
Failures(w) == w_attempts[w] - (IF w_pc[w] = "done" THEN 1 ELSE 0)

\* The other workers whose update of w's cell has succeeded
OthersDone(w) ==
  Cardinality({v \in Workers : v # w /\ w_cell[v] = w_cell[w] /\ w_pc[v] = "done"})

\* Worker w's compare-and-swap fails in this step
CasFails(w) == w_attempts'[w] = w_attempts[w] + 1 /\ w_pc'[w] = "cas"

C9_NoLostUpdate ==
  WorkersDone =>
    \A c \in TallyWords : tally_word[c] = RAdd(tally_before[c], AddedTo(c, 0))

\* C9 witness: all workers are done, two of them added to the same word, and
\* one of them had to go round the loop again
C9_Witness ==
  /\ WorkersDone
  /\ \E v, w \in Workers :
       /\ v # w
       /\ w_cell[v] = w_cell[w]
       /\ w_attempts[w] >= 2
       /\ w_old1[w] = RAdd(tally_before[w_cell[w]], w_tally[v])

(***************************************************************************)
(* microscopic_cs_for_energy_binary, one pass of its search loop at a      *)
(* time.  The function tests no index: a read of keys[i] or values[i] with *)
(* i outside 0 .. nentries-1 is a read of whatever lies next to the table, *)
(* one of StrayDoubles.                                                    *)
(***************************************************************************)
MaxEntries == 8

\* The passes a search is followed for
MaxSearchSteps == MaxEntries + 1

StrayDoubles == {R(-1), R(2 * MaxEntries)}

RECURSIVE GapSum(_, _)
GapSum(gaps, i) == IF i = 0 THEN 0 ELSE gaps[i] + GapSum(gaps, i - 1)

\* The table whose keys start at 0 and go up by the given gaps
GapTable(gaps) ==
  [nentries |-> Len(gaps) + 1,
   keys |-> [i \in 1 .. (Len(gaps) + 1) |-> R(GapSum(gaps, i - 1))],
   values |-> [i \in 1 .. (Len(gaps) + 1) |-> R((i * i) % 7)]]

\* Tables of 2 .. MaxEntries entries with strictly increasing keys
LookupTables ==
  {GapTable(gaps) : gaps \in UNION {[1 .. n -> {1, 2}] : n \in 1 .. (MaxEntries - 1)}}

\* Energies on the keys of the table, between them, below and above them
LookupEnergies(cs) ==
  {At(cs.keys, i) : i \in 0 .. (cs.nentries - 1)}
    \cup {RAdd(At(cs.keys, i), <<1, 2>>) : i \in 0 .. (cs.nentries - 1)}
    \cup {R(-1), <<-1, 2>>}

\* keys[i] and values[i] as the function reads them
key_read(cs, i, stray) ==
  IF i \in 0 .. (cs.nentries - 1) THEN At(cs.keys, i) ELSE stray

value_read(cs, i, stray) ==
  IF i \in 0 .. (cs.nentries - 1) THEN At(cs.values, i) ELSE stray

\* The loop condition, energy < keys[ind] || energy >= keys[ind + 1]
search_goes_on(energy, k0, k1) == RLt(energy, k0) \/ RGe(energy, k1)

\* The entries the loop condition reads: keys[ind + 1] only if the first
\* comparison is false
condition_reads(energy, ind, k0) ==
  IF RLt(energy, k0) THEN {ind} ELSE {ind, ind + 1}

\* The value linearly interpolated between two entries
interpolated(energy, k0, k1, v0, v1) ==
  RAdd(v0, RMul(RDiv(RSub(energy, k0), RSub(k1, k0)), RSub(v1, v0)))

\* The call as it starts: ind = nentries / 2, width = ind / 2
search_start(cs, energy) ==
  [cs |-> cs, energy |-> energy,
   ind |-> cs.nentries \div 2, width |-> (cs.nentries \div 2) \div 2,
   pc |-> "search", reads |-> {}, steps |-> 0, value |-> NaN]

\* The body of the loop
search_moved(l, k0) ==
  [l EXCEPT !.ind = l.ind + (IF RLt(l.energy, k0) THEN -l.width ELSE l.width),
            !.width = Max(1, l.width \div 2),
            !.reads = l.reads \cup condition_reads(l.energy, l.ind, k0),
            !.steps = l.steps + 1]

\* After the loop: *cs_index = ind, and the interpolated value is returned
search_returned(l, k0, k1, v0, v1) ==
  [l EXCEPT !.pc = "returned",
            !.reads = l.reads \cup {l.ind, l.ind + 1},
            !.value = interpolated(l.energy, k0, k1, v0, v1)]

InitLookup ==
  /\ \E cs \in LookupTables : \E energy \in LookupEnergies(cs) :
       lookup = search_start(cs, energy)
  /\ inject = <<>>
  /\ walk = <<>>
  /\ exchange = <<>>
  /\ facet_call = <<>>
  /\ BlockLoopLeftOut
  /\ PartitionLeftOut
  /\ NoWorkerInUpdate
  /\ FirstTimeStep

\* One pass of the loop whose condition holds
SearchStep ==
  /\ lookup.pc = "search"
  /\ lookup.steps < MaxSearchSteps
  /\ \E s0, s1 \in StrayDoubles :
       LET k0 == key_read(lookup.cs, lookup.ind, s0)
           k1 == key_read(lookup.cs, lookup.ind + 1, s1)
       IN  /\ search_goes_on(lookup.energy, k0, k1)
           /\ lookup' = search_moved(lookup, k0)
  /\ UNCHANGED <<block_vars, thread_vars, atomic_vars, main_vars, inject, walk,
               exchange, facet_call>>

\* The loop condition fails, and the function returns
SearchReturn ==
  /\ lookup.pc = "search"
  /\ \E s0, s1, t0, t1 \in StrayDoubles :
       LET k0 == key_read(lookup.cs, lookup.ind, s0)
           k1 == key_read(lookup.cs, lookup.ind + 1, s1)
           v0 == value_read(lookup.cs, lookup.ind, t0)
           v1 == value_read(lookup.cs, lookup.ind + 1, t1)
       IN  /\ ~search_goes_on(lookup.energy, k0, k1)
           /\ lookup' = search_returned(lookup, k0, k1, v0, v1)
  /\ UNCHANGED <<block_vars, thread_vars, atomic_vars, main_vars, inject, walk,
               exchange, facet_call>>

NextLookup == SearchStep \/ SearchReturn

SpecLookup == InitLookup /\ [][NextLookup]_vars

LastKey(cs) == At(cs.keys, cs.nentries - 1)

\* The energy is in [keys[0], keys[N-1]]
InTable(l) == RGe(l.energy, At(l.cs.keys, 0)) /\ RLe(l.energy, LastKey(l.cs))

\* The entries of the table
Entries(cs) == 0 .. (cs.nentries - 1)

\* The returned index is the bin of the energy, and the value is the one
\* interpolated in it
ReturnsBin(l) ==
  /\ l.ind \in 0 .. (l.cs.nentries - 2)
  /\ RLe(At(l.cs.keys, l.ind), l.energy)
  /\ RLt(l.energy, At(l.cs.keys, l.ind + 1))
  /\ l.value = interpolated(l.energy, At(l.cs.keys, l.ind),
                            At(l.cs.keys, l.ind + 1),
                            At(l.cs.values, l.ind), At(l.cs.values, l.ind + 1))

\* C21: for a table with strictly increasing keys and an energy in
\* [keys[0], keys[N-1]], the search reads only the entries 0 .. N-1, and it
\* returns the index i with keys[i] <= E < keys[i+1] and the value
\* interpolated in that bin.
C21_AsStated ==
  InTable(lookup) =>
    /\ lookup.reads \subseteq Entries(lookup.cs)
    /\ lookup.pc = "returned" => ReturnsBin(lookup)

\* What the search does for an energy in [keys[0], keys[N-1]): it stays in
\* the table, returns within nentries passes (fewer than MaxSearchSteps, so
\* that a pass or the return is always possible), and returns the bin of the
\* energy.
HalfOpenSearch ==
  (InTable(lookup) /\ lookup.energy # LastKey(lookup.cs)) =>
    /\ lookup.reads \subseteq Entries(lookup.cs)
    /\ lookup.steps <= lookup.cs.nentries
    /\ lookup.pc = "returned" => ReturnsBin(lookup)

\* A search that has returned for an energy of the half-open range, after
\* strides of more than one entry
HalfOpenReturned ==
  /\ lookup.pc = "returned"
  /\ InTable(lookup)
  /\ lookup.energy # LastKey(lookup.cs)
  /\ lookup.cs.nentries = MaxEntries
  /\ lookup.steps >= 3

\* C22: a lookup with an energy outside [keys[0], keys[N-1]] does not return
\* a value.
C22_AsStated ==
  ~InTable(lookup) => lookup.pc # "returned"

(***************************************************************************)
(* inject_particles: the test of the particle count, the allocation of the *)
(* particle blocks, and the parallel loop that fills them.                 *)
(***************************************************************************)
\* The particle counts followed
InjectCounts == 0 .. (MaxBlocks * BLOCK_SIZE)

\* TERMINATE: the message is reported and the run ends
TERMINATE(i, message) == [i EXCEPT !.pc = "fatal", !.error = message]

\* Variant: the particle count is not tested
bad_particle_count_never(nparticles) == FALSE

\* if (nparticles % BLOCK_SIZE)
bad_particle_count(nparticles) == nparticles % BLOCK_SIZE # 0

\* The particle ids of block b, pid = b * BLOCK_SIZE + k
block_pids(b) == [k \in 1 .. BLOCK_SIZE |-> b * BLOCK_SIZE + (k - 1)]

\* The significant bits kept by a double of the model
MantissaBits == 3

\* The double nearest to r, ties to the even significand: the result of one
\* floating-point operation whose exact value is r
RECURSIVE round_double(_)
round_double(r) ==
  IF r[2] = 0 \/ r[1] = 0 THEN r
  ELSE IF r[1] < 0 THEN RNeg(round_double(RNeg(r)))
  ELSE IF r[1] < 2 ^ (MantissaBits - 1) * r[2]
       THEN RMul(round_double(Norm(2 * r[1], r[2])), <<1, 2>>)
  ELSE IF r[1] >= 2 ^ MantissaBits * r[2]
       THEN RMul(round_double(Norm(r[1], 2 * r[2])), R(2))
  ELSE R(IF 2 * (r[1] % r[2]) > r[2]
            \/ (2 * (r[1] % r[2]) = r[2] /\ (r[1] \div r[2]) % 2 = 1)
         THEN (r[1] \div r[2]) + 1
         ELSE r[1] \div r[2])

\* The last double below 1
LastBelowOne == <<2 ^ MantissaBits - 1, 2 ^ MantissaBits>>

\* generate_random_numbers(pid, 0, 0): rn[0] and rn[1] are doubles of [0, 1),
\* and the direction is that of theta = 2 pi rn[2] for rn[2] of 0, 1/4, 1/2
SourceDraws ==
  <<[rn0 |-> Zero, rn1 |-> Zero, omega |-> <<R(1), R(0)>>],
    [rn0 |-> <<1, 2>>, rn1 |-> LastBelowOne, omega |-> <<R(0), R(1)>>],
    [rn0 |-> LastBelowOne, rn1 |-> <<1, 2>>, omega |-> <<R(-1), R(0)>>]>>

\* The draws of particle pid in the stream chosen for the run
random_numbers(stream, pid) == SourceDraws[((pid + stream) % Len(SourceDraws)) + 1]

\* The source rectangles followed: one away from the upper edges of the
\* mesh, one that reaches them
SourceRegions ==
  {[left_off |-> R(4), bottom_off |-> R(0), width |-> R(4), height |-> R(4)],
   [left_off |-> R(8), bottom_off |-> R(4), width |-> R(4), height |-> R(4)]}

\* p->x[k] = local_particle_left_off + rn[0] * local_particle_width
source_position(off, rn, extent) ==
  round_double(RAdd(off, round_double(RMul(rn, extent))))

\* Lines 689-734: the particles of block b
inject_block(i, b) ==
  [k \in 1 .. BLOCK_SIZE |->
     inject_particle(
       source_position(i.source.left_off,
                       random_numbers(i.stream, block_pids(b)[k]).rn0,
                       i.source.width),
       source_position(i.source.bottom_off,
                       random_numbers(i.stream, block_pids(b)[k]).rn1,
                       i.source.height),
       random_numbers(i.stream, block_pids(b)[k]).omega,
       initial_energy, i.dt)]

InitInject ==
  /\ \E nparticles \in InjectCounts, source \in SourceRegions,
        stream \in 0 .. (Len(SourceDraws) - 1), step_dt \in DtChoices :
       inject = [nparticles |-> nparticles, source |-> source,
                 stream |-> stream, dt |-> step_dt, pc |-> "check",
                 error |-> "", nb |-> 0, allocated |-> FALSE,
                 particles |-> <<>>]
  /\ lookup = <<>>
  /\ walk = <<>>
  /\ exchange = <<>>
  /\ facet_call = <<>>
  /\ BlockLoopLeftOut
  /\ PartitionLeftOut
  /\ NoWorkerInUpdate
  /\ FirstTimeStep

\* Lines 673-677
InjectCheck ==
  /\ inject.pc = "check"
  /\ inject' = IF bad_particle_count(inject.nparticles)
               THEN TERMINATE(inject, "BadParticleCount")
               ELSE [inject EXCEPT !.pc = "allocate",
                                   !.nb = inject.nparticles \div BLOCK_SIZE]
  /\ UNCHANGED <<block_vars, thread_vars, atomic_vars, main_vars, lookup, walk,
               exchange, facet_call>>

\* Lines 679-683: malloc gives the blocks, with nothing written to them, or
\* gives nothing
InjectAllocate ==
  /\ inject.pc = "allocate"
  /\ \E given \in BOOLEAN :
       inject' = IF given
                 THEN [inject EXCEPT !.pc = "fill", !.allocated = TRUE,
                                     !.particles =
                                        [b \in 0 .. (inject.nb - 1) |-> <<>>]]
                 ELSE TERMINATE(inject, "AllocationFailed")
  /\ UNCHANGED <<block_vars, thread_vars, atomic_vars, main_vars, lookup, walk,
               exchange, facet_call>>

\* Lines 685-734: one iteration of the parallel loop over the blocks, taken
\* in any order
InjectBlock(b) ==
  /\ inject.pc = "fill"
  /\ inject.particles[b] = <<>>
  /\ inject' = [inject EXCEPT !.particles[b] = inject_block(inject, b)]
  /\ UNCHANGED <<block_vars, thread_vars, atomic_vars, main_vars, lookup, walk,
               exchange, facet_call>>

\* Line 737, when every iteration of the loop has run
InjectReturn ==
  /\ inject.pc = "fill"
  /\ \A b \in 0 .. (inject.nb - 1) : inject.particles[b] # <<>>
  /\ inject' = [inject EXCEPT !.pc = "returned"]
  /\ UNCHANGED <<block_vars, thread_vars, atomic_vars, main_vars, lookup, walk,
               exchange, facet_call>>

NextInject ==
  \/ InjectCheck
  \/ InjectAllocate
  \/ \E b \in 0 .. (MaxBlocks - 1) : b < inject.nb /\ InjectBlock(b)
  \/ InjectReturn

SpecInject == InitInject /\ [][NextInject]_vars

\* C23: with a particle count that is not a multiple of BLOCK_SIZE the call
\* ends in the fatal error BadParticleCount, and no particle block is
\* allocated or written: the call is at its test of the count or has ended
\* with that error.
C23_BadCountIsFatal ==
  inject.nparticles % BLOCK_SIZE # 0 =>
    /\ inject.pc \in {"check", "fatal"}
    /\ inject.pc = "fatal" => inject.error = "BadParticleCount"
    /\ ~inject.allocated
    /\ inject.particles = <<>>

\* C23 witness: a call with more than one block's worth of particles and one
\* over has ended with the error
C23_Witness ==
  /\ inject.nparticles = BLOCK_SIZE + 1
  /\ inject.pc = "fatal"
  /\ inject.error = "BadParticleCount"
  /\ ~inject.allocated

(***************************************************************************)
(* The cells of one particle of a local subdomain, and the tally index of  *)
(* each call of update_tallies for it.  The distances are left out: any    *)
(* event may be the next one, and a facet met may be an x or a y facet.    *)
(***************************************************************************)
\* The local subdomains of the mesh: nx by ny cells from (x_off, y_off)
Subdomains ==
  {[x_off |-> xo, nx |-> n, y_off |-> yo, ny |-> m] :
     xo \in 0 .. (global_nx - 1), n \in 1 .. global_nx,
     yo \in 0 .. (global_ny - 1), m \in 1 .. global_ny}

\* ... inside the global mesh
LocalSubdomains ==
  {sub \in Subdomains :
     sub.x_off + sub.nx <= global_nx /\ sub.y_off + sub.ny <= global_ny}

WholeMesh == [x_off |-> 0, nx |-> global_nx, y_off |-> 0, ny |-> global_ny]

Directions == {R(1), R(-1)}

\* update_tallies, lines 508-513 and 527: the index of the tally written
local_tally_index(sub, p_cellx, p_celly) ==
  LET cellx == p_cellx - sub.x_off
      celly == p_celly - sub.y_off
  IN  celly * sub.nx + cellx

\* The halo widths followed
MaxPad == 1

\* handle_particles, lines 135-137: the element of the density array read
\* when the block starts
density_index_at_init(sub, halo, p_cellx, p_celly) ==
  LET cellx == p_cellx - sub.x_off + halo
      celly == p_celly - sub.y_off + halo
  IN  celly * (sub.nx + 2 * halo) + cellx

\* facet_event, lines 467-469: the element of the density array read after
\* the facet
density_index_at_facet(sub, halo, p_cellx, p_celly) ==
  LET cellx == p_cellx - sub.x_off
      celly == p_celly - sub.y_off
  IN  celly * sub.nx + cellx

\* The particle with the density of its cell read as facet_event reads it
density_read(w) ==
  [w EXCEPT !.crossed = TRUE,
            !.density_index =
               density_index_at_facet(w.sub, w.pad, w.p.cellx, w.p.celly)]

\* The particle with its tally written for the cell it is in
tallied(w) ==
  [w EXCEPT !.wrote = TRUE,
            !.index = local_tally_index(w.sub, w.p.cellx, w.p.celly)]

\* inject_particles puts the particle in a cell of the local mesh
InitWalk ==
  /\ \E sub \in LocalSubdomains :
       \E cx \in sub.x_off .. (sub.x_off + sub.nx - 1) :
         \E cy \in sub.y_off .. (sub.y_off + sub.ny - 1) :
           \E ox, oy \in Directions : \E halo \in 0 .. MaxPad :
             walk = [sub |-> sub, pad |-> halo, pc |-> "flight",
                     wrote |-> FALSE, index |-> 0,
                     crossed |-> FALSE, density_index |-> 0,
                     p |-> [cellx |-> cx, celly |-> cy,
                            omega_x |-> ox, omega_y |-> oy]]
  /\ lookup = <<>>
  /\ inject = <<>>
  /\ exchange = <<>>
  /\ facet_call = <<>>
  /\ BlockLoopLeftOut
  /\ PartitionLeftOut
  /\ NoWorkerInUpdate
  /\ FirstTimeStep

\* facet_event: the tally of the cell left is written (line 441), then the
\* particle is reflected or moved to the next cell (lines 455-464), and the
\* density of its cell is read (lines 467-469)
WalkFacet ==
  /\ walk.pc = "flight"
  /\ \E x_facet \in BOOLEAN :
       walk' = density_read([tallied(walk) EXCEPT
                  !.p = facet_cross(walk.p, x_facet,
                          facet_reflect(walk.p.omega_x, walk.p.cellx, global_nx),
                          facet_reflect(walk.p.omega_y, walk.p.celly, global_ny))])
  /\ UNCHANGED <<block_vars, thread_vars, atomic_vars, main_vars, lookup,
                 inject, exchange, facet_call>>

\* collision_event: a new direction in the same cell
WalkCollision ==
  /\ walk.pc = "flight"
  /\ \E ox, oy \in Directions :
       walk' = [walk EXCEPT !.p.omega_x = ox, !.p.omega_y = oy]
  /\ UNCHANGED <<block_vars, thread_vars, atomic_vars, main_vars, lookup,
                 inject, exchange, facet_call>>

\* census_event: the tally of the cell is written (line 496)
WalkCensus ==
  /\ walk.pc = "flight"
  /\ walk' = [tallied(walk) EXCEPT !.pc = "census"]
  /\ UNCHANGED <<block_vars, thread_vars, atomic_vars, main_vars, lookup,
                 inject, exchange, facet_call>>

NextWalk == WalkFacet \/ WalkCollision \/ WalkCensus

SpecWalk == InitWalk /\ [][NextWalk]_vars

\* C26: every tally write of update_tallies uses an index in [0, nx*ny), for
\* every local subdomain inside the global mesh and after any sequence of
\* events.
C26_AsStated ==
  walk.wrote => walk.index \in 0 .. (walk.sub.nx * walk.sub.ny - 1)

\* When the subdomain is the whole mesh every tally index is in [0, nx*ny)
WholeMeshInRange ==
  (walk.sub = WholeMesh /\ walk.wrote) =>
    walk.index \in 0 .. (walk.sub.nx * walk.sub.ny - 1)

\* A particle of the whole mesh that has gone through cells to its census
WholeMeshCensus ==
  /\ walk.sub = WholeMesh
  /\ walk.pc = "census"
  /\ walk.index = NCells - 1

(***************************************************************************)
(* bright.c, MPI build: solve_transport_2d on two ranks that are each      *)
(* other's only neighbour.  A particle is its id and the number of times   *)
(* it still leaves the subdomain of the rank that handles it before it     *)
(* reaches census (hops).  MPI_Send either queues the particle (eager) or  *)
(* completes only when the destination is in its MPI_Recv.  The count that *)
(* MPI_Isend sends is never waited for and its buffer is written again     *)
(* (line 96): the count that arrives is the one posted or the one the      *)
(* buffer holds when it is taken.                                          *)
(***************************************************************************)
MaxRankParticles == 2
MaxHops == 2

Ranks == 0 .. 1

\* neighbours[]: the other rank; every other entry is EDGE
neighbour(r) == 1 - r

\* The slots of a rank's particle array
Slots == 0 .. (4 * MaxRankParticles - 1)

NoParticle == [id |-> 0, hops |-> 0, dead |-> FALSE]

\* The particles a rank starts the time step with
RankParticles(r) ==
  UNION {{[s \in Slots |-> IF s < n
                             THEN [id |-> r * MaxRankParticles + s + 1,
                                   hops |-> h[s], dead |-> FALSE]
                             ELSE NoParticle] :
            h \in [0 .. (n - 1) -> 0 .. MaxHops]} : n \in 0 .. MaxRankParticles}

\* The number of particles in a store as the time step starts
Held(store) == Cardinality({s \in Slots : store[s] # NoParticle})

\* The ids of the live particles in n slots from a slot on
LiveIds(store, from, n) ==
  {store[s].id : s \in {t \in Slots : from <= t /\ t < from + n /\ ~store[t].dead}}

\* Lines 28-36 and the entry of handle_particles, lines 138-139.  batch is
\* the live particles the call is given and visited the particles that
\* handle_particle was called for, in order.
rank_start(store) ==
  [pc |-> "handle", particles |-> store, nparticles |-> Held(store),
   sent |-> 0, recv |-> 0, posted |-> 0, round |-> 0, jj |-> 0,
   start |-> 0, nunprocessed |-> Held(store), pp |-> 0,
   nlocal |-> Held(store), nout |-> 0,
   batch |-> LiveIds(store, 0, Held(store)), visited |-> <<>>]

InitExchange ==
  /\ \E eager \in BOOLEAN : \E s0 \in RankParticles(0) : \E s1 \in RankParticles(1) :
       exchange = [eager |-> eager,
                   ids |-> ({s0[s].id : s \in Slots} \cup {s1[s].id : s \in Slots})
                             \ {NoParticle.id},
                   rank |-> [r \in Ranks |-> rank_start(IF r = 0 THEN s0 ELSE s1)],
                   counts |-> [r \in Ranks |-> <<>>],
                   wire |-> [r \in Ranks |-> <<>>]]
  /\ lookup = <<>>
  /\ inject = <<>>
  /\ walk = <<>>
  /\ facet_call = <<>>
  /\ BlockLoopLeftOut
  /\ PartitionLeftOut
  /\ NoWorkerInUpdate
  /\ FirstTimeStep

\* Lines 145-147: nout_particles and the particle of this iteration
nout_at_top(rk) == rk.nunprocessed - rk.nlocal

\* Variant: the index is not corrected for the particles sent
particle_slot_uncorrected(rk) == rk.start + rk.pp

particle_slot(rk) == rk.start + (rk.pp - nout_at_top(rk))

\* Lines 149-152: a dead particle is passed over
passed_over(rk) ==
  [rk EXCEPT !.pp = rk.pp + 1, !.nout = nout_at_top(rk)]

\* handle_particle for a particle that reaches census on this rank
handled_to_census(rk) ==
  [rk EXCEPT !.pp = rk.pp + 1, !.nout = nout_at_top(rk),
             !.visited = Append(rk.visited, rk.particles[particle_slot(rk)].id)]

\* send_and_replace_particle, lines 398-402, and line 319 or 338: the count
\* goes down, the last particle of the batch takes the slot, and
\* nparticles_sent goes up
handled_and_sent(rk) ==
  [rk EXCEPT !.pp = rk.pp + 1,
             !.nout = nout_at_top(rk),
             !.nlocal = rk.nlocal - 1,
             !.particles[particle_slot(rk)] =
                rk.particles[rk.start + (rk.nlocal - 1)],
             !.sent = rk.sent + 1,
             !.visited = Append(rk.visited, rk.particles[particle_slot(rk)].id)]

\* The particle as it is sent
sent_on(pt) == [pt EXCEPT !.hops = pt.hops - 1]

\* MPI_Send can complete: the message is queued, or the destination is in
\* the MPI_Recv that takes it
send_completes(x, dest) ==
  \/ x.eager
  \/ /\ x.rank[dest].pc = "recv"
     /\ x.rank[dest].jj < x.rank[dest].recv
     /\ x.wire[dest] = <<>>

\* One iteration of the loop of handle_particles, lines 143-160
HandleParticle(r) ==
  /\ exchange.rank[r].pc = "handle"
  /\ exchange.rank[r].pp < exchange.rank[r].nunprocessed
  /\ IF exchange.rank[r].particles[particle_slot(exchange.rank[r])].dead
     THEN exchange' = [exchange EXCEPT
                         !.rank[r] = passed_over(exchange.rank[r])]
     ELSE IF exchange.rank[r].particles[particle_slot(exchange.rank[r])].hops = 0
     THEN exchange' = [exchange EXCEPT
                         !.rank[r] = handled_to_census(exchange.rank[r])]
     ELSE /\ send_completes(exchange, neighbour(r))
          /\ exchange' = [exchange EXCEPT
               !.rank[r] = handled_and_sent(exchange.rank[r]),
               !.wire[neighbour(r)] =
                  Append(@, sent_on(exchange.rank[r].particles[
                                      particle_slot(exchange.rank[r])]))]
  /\ UNCHANGED <<block_vars, thread_vars, atomic_vars, main_vars, lookup,
                 inject, walk, facet_call>>

\* *nparticles -= nout_particles, and the return to the caller: the first
\* call is followed by the loop of the exchange, a later one by the reduction
handle_returned(rk) ==
  [rk EXCEPT !.nparticles = rk.nparticles - rk.nout,
             !.pc = IF rk.round = 0 THEN "exchange" ELSE "reduce"]

\* The end of handle_particles
HandleDone(r) ==
  /\ exchange.rank[r].pc = "handle"
  /\ exchange.rank[r].pp = exchange.rank[r].nunprocessed
  /\ exchange' = [exchange EXCEPT !.rank[r] = handle_returned(exchange.rank[r])]
  /\ UNCHANGED <<block_vars, thread_vars, atomic_vars, main_vars, lookup,
                 inject, walk, facet_call>>

\* Lines 51-71: MPI_Irecv and MPI_Isend of the counts
PostCounts(r) ==
  /\ exchange.rank[r].pc = "exchange"
  /\ exchange' = [exchange EXCEPT
       !.counts[neighbour(r)] = Append(@, exchange.rank[r].sent),
       !.rank[r] = [@ EXCEPT !.pc = "waitall",
                             !.round = exchange.rank[r].round + 1]]
  /\ UNCHANGED <<block_vars, thread_vars, atomic_vars, main_vars, lookup,
                 inject, walk, facet_call>>

\* The received count, and unprocessed_start = nparticles
counts_arrived(rk, arrived, posted) ==
  [rk EXCEPT !.pc = "recv", !.recv = arrived, !.posted = posted,
             !.jj = 0, !.nunprocessed = 0, !.start = rk.nparticles]

\* MPI_Waitall on the receives only
Waitall(r) ==
  /\ exchange.rank[r].pc = "waitall"
  /\ exchange.counts[r] # <<>>
  /\ \E arrived \in {Head(exchange.counts[r]), exchange.rank[neighbour(r)].sent} :
       exchange' = [exchange EXCEPT
         !.counts[r] = Tail(@),
         !.rank[r] = counts_arrived(exchange.rank[r], arrived,
                                    Head(exchange.counts[r]))]
  /\ UNCHANGED <<block_vars, thread_vars, atomic_vars, main_vars, lookup,
                 inject, walk, facet_call>>

\* particles[unprocessed_start + nunprocessed_particles] is received
particle_received(rk, pt) ==
  [rk EXCEPT !.particles[rk.start + rk.nunprocessed] = pt,
             !.nunprocessed = rk.nunprocessed + 1,
             !.jj = rk.jj + 1]

\* One MPI_Recv of a particle
RecvParticle(r) ==
  /\ exchange.rank[r].pc = "recv"
  /\ exchange.rank[r].jj < exchange.rank[r].recv
  /\ exchange.wire[r] # <<>>
  /\ exchange' = [exchange EXCEPT
       !.wire[r] = Tail(@),
       !.rank[r] = particle_received(exchange.rank[r], Head(exchange.wire[r]))]
  /\ UNCHANGED <<block_vars, thread_vars, atomic_vars, main_vars, lookup,
                 inject, walk, facet_call>>

\* nparticles_recv and nparticles_sent are set to 0, nparticles goes up,
\* and handle_particles is called if a particle was received
received_all(rk) ==
  [rk EXCEPT !.recv = 0, !.sent = 0,
             !.nparticles = rk.nparticles + rk.nunprocessed,
             !.pp = 0, !.nlocal = rk.nunprocessed, !.nout = 0,
             !.batch = LiveIds(rk.particles, rk.start, rk.nunprocessed),
             !.visited = <<>>,
             !.pc = IF rk.nunprocessed # 0 THEN "handle" ELSE "reduce"]

\* The counts are cleared and the received particles handled
RecvDone(r) ==
  /\ exchange.rank[r].pc = "recv"
  /\ exchange.rank[r].jj = exchange.rank[r].recv
  /\ exchange' = [exchange EXCEPT
       !.rank[r] = received_all(exchange.rank[r])]
  /\ UNCHANGED <<block_vars, thread_vars, atomic_vars, main_vars, lookup,
                 inject, walk, facet_call>>

\* Lines 110-119: MPI_Allreduce of nunprocessed_particles and the end of loop
Allreduce ==
  /\ \A r \in Ranks : exchange.rank[r].pc = "reduce"
  /\ LET particles_to_process ==
           exchange.rank[0].nunprocessed + exchange.rank[1].nunprocessed
     IN  exchange' = [exchange EXCEPT
           !.rank = [r \in Ranks |->
                       [exchange.rank[r] EXCEPT
                          !.pc = IF particles_to_process = 0
                                 THEN "done" ELSE "exchange"]]]
  /\ UNCHANGED <<block_vars, thread_vars, atomic_vars, main_vars, lookup,
                 inject, walk, facet_call>>

NextExchange ==
  \/ \E r \in Ranks : HandleParticle(r)
  \/ \E r \in Ranks : HandleDone(r)
  \/ \E r \in Ranks : PostCounts(r)
  \/ \E r \in Ranks : Waitall(r)
  \/ \E r \in Ranks : RecvParticle(r)
  \/ \E r \in Ranks : RecvDone(r)
  \/ Allreduce

SpecExchange == InitExchange /\ [][NextExchange]_vars

\* The slots of the particles a rank holds, 0 .. nparticles-1, with the id
HoldersOf(id) ==
  {<<r, s>> \in Ranks \X Slots :
     s < exchange.rank[r].nparticles /\ exchange.rank[r].particles[s].id = id}

ExchangeDone == \A r \in Ranks : exchange.rank[r].pc = "done"

\* C27: the count a rank receives is the count its neighbour sent, and when
\* the loop has ended on both ranks no particle is in flight and no particle
\* is held twice: what the ranks hold is one copy of every particle that was
\* there at the start.
C27_AsStated ==
  /\ \A r \in Ranks :
       exchange.rank[r].pc = "recv" => exchange.rank[r].recv = exchange.rank[r].posted
  /\ ExchangeDone =>
       /\ \A r \in Ranks : exchange.wire[r] = <<>>
       /\ \A id \in exchange.ids : Cardinality(HoldersOf(id)) = 1

(***************************************************************************)
(* bright.c, handle_particles on a batch in which particles are dead, stay *)
(* or leave: rank 0 starts with up to MaxBatch particles, rank 1 with none *)
(***************************************************************************)
MaxBatch == 3

\* The batches of rank 0: live or dead particles that stay or leave
BatchParticles ==
  UNION {{[s \in Slots |-> IF s < n
                             THEN [id |-> s + 1, hops |-> h[s], dead |-> d[s]]
                             ELSE NoParticle] :
            h \in [0 .. (n - 1) -> 0 .. 1], d \in [0 .. (n - 1) -> BOOLEAN]} :
         n \in 0 .. MaxBatch}

EmptyStore == [s \in Slots |-> NoParticle]

InitBatch ==
  /\ \E s0 \in BatchParticles :
       exchange = [eager |-> TRUE,
                   ids |-> {s0[s].id : s \in Slots} \ {NoParticle.id},
                   rank |-> [r \in Ranks |->
                               rank_start(IF r = 0 THEN s0 ELSE EmptyStore)],
                   counts |-> [r \in Ranks |-> <<>>],
                   wire |-> [r \in Ranks |-> <<>>]]
  /\ lookup = <<>>
  /\ inject = <<>>
  /\ walk = <<>>
  /\ facet_call = <<>>
  /\ BlockLoopLeftOut
  /\ PartitionLeftOut
  /\ NoWorkerInUpdate
  /\ FirstTimeStep

SpecBatch == InitBatch /\ [][NextExchange]_vars

\* The ids in a sequence
IdsIn(visited) == {visited[i] : i \in 1 .. Len(visited)}

\* handle_particles is in its loop, or at its end
InBatch(rk) == rk.pc = "handle"

\* C37: in a call of handle_particles of bright.c no particle is handled
\* twice, the slot of every iteration is one of the remaining local
\* particles, the iteration after a particle was sent is on the slot the
\* last local particle was moved to, and when the loop ends every live
\* particle of the batch has been handled.
C37_EveryLiveParticleOnce ==
  \A r \in Ranks :
    InBatch(exchange.rank[r]) =>
      /\ Cardinality(IdsIn(exchange.rank[r].visited)) = Len(exchange.rank[r].visited)
      /\ IdsIn(exchange.rank[r].visited) \subseteq exchange.rank[r].batch
      /\ exchange.rank[r].pp < exchange.rank[r].nunprocessed =>
           /\ particle_slot(exchange.rank[r]) >= exchange.rank[r].start
           /\ particle_slot(exchange.rank[r]) <
                exchange.rank[r].start + exchange.rank[r].nlocal
      /\ exchange.rank[r].pp = exchange.rank[r].nunprocessed =>
           IdsIn(exchange.rank[r].visited) = exchange.rank[r].batch

\* C37 witness: a batch of three in which the first particle handled was
\* sent, the particle moved to its slot was handled next, and the loop ended
\* with all three handled and two sent
C37_Witness ==
  /\ exchange.rank[0].pc = "handle"
  /\ exchange.rank[0].round = 0
  /\ exchange.rank[0].nunprocessed = 3
  /\ exchange.rank[0].pp = 3
  /\ exchange.rank[0].visited = <<1, 3, 2>>
  /\ exchange.rank[0].sent = 2

\* C36: for any halo width, the element of the density array that is read
\* after a facet event is the element that the lookup at the start of a block
\* reads for the cell the particle is in.
C36_AsStated ==
  walk.crossed =>
    walk.density_index =
      density_index_at_init(walk.sub, walk.pad, walk.p.cellx, walk.p.celly)

\* Without a halo the two lookups read the same element
NoHaloSameElement ==
  (walk.crossed /\ walk.pad = 0) =>
    walk.density_index =
      density_index_at_init(walk.sub, walk.pad, walk.p.cellx, walk.p.celly)


(***************************************************************************)
(* inject_particles: the particles of the source region                    *)
(***************************************************************************)
\* The particles written by the call so far
Injected ==
  IF inject.particles = <<>> THEN {}
  ELSE {inject.particles[b][k] :
          b \in {c \in DOMAIN inject.particles : inject.particles[c] # <<>>},
          k \in 1 .. BLOCK_SIZE}

\* edge[cell - off + pad] <= pos < edge[cell - off + pad + 1]
InCell(edge, off, cell, pos) ==
  /\ cell - off + pad >= 0
  /\ cell - off + pad + 1 < Len(edge)
  /\ RLe(At(edge, cell - off + pad), pos)
  /\ RLt(pos, At(edge, cell - off + pad + 1))

StartsAsStated(p) ==
  /\ p.dt_to_census = inject.dt
  /\ p.mfp_to_collision = Zero
  /\ p.dead = FALSE
  /\ p.weight = One
  /\ p.energy = initial_energy

\* C34: every particle produced by inject_particles starts with
\* dt_to_census = dt, mfp_to_collision = 0, dead = false, weight 1, energy
\* E0, and cell indices of the cell that holds its position:
\* edgex[cellx - x_off + pad] <= x < edgex[cellx - x_off + pad + 1], and
\* likewise for y.
C34_AsStated ==
  \A p \in Injected :
    /\ StartsAsStated(p)
    /\ InCell(edgex, x_off, p.cellx, p.x)
    /\ InCell(edgey, y_off, p.celly, p.y)

\* Every particle produced starts with the stated census time, mean free
\* paths, weight and energy, and alive
InjectedStart ==
  \A p \in Injected : StartsAsStated(p)

\* With a source rectangle that ends below the upper edges of the mesh, every
\* particle is given the cell that holds its position
InteriorSourceCells ==
  (/\ RLt(RAdd(inject.source.left_off, inject.source.width),
          At(edgex, nx + pad))
   /\ RLt(RAdd(inject.source.bottom_off, inject.source.height),
          At(edgey, ny + pad))) =>
    \A p \in Injected :
      InCell(edgex, x_off, p.cellx, p.x) /\ InCell(edgey, y_off, p.celly, p.y)

\* A call that has returned with every block written, for the source away
\* from the upper edges
InteriorSourceReturned ==
  /\ inject.pc = "returned"
  /\ inject.nb = MaxBlocks
  /\ RLt(RAdd(inject.source.left_off, inject.source.width), At(edgex, nx + pad))


(***************************************************************************)
(* calc_distance_to_facet of bright.c, and one call of each of the two     *)
(* variants with the same arguments.                                       *)
(***************************************************************************)
\* The halo width of bright.c
PAD == pad

\* bright.c: the signed distance along the x axis to the facet ahead
bright_to_edge_x(x, omega_x, cell) ==
  IF RLt(Zero, omega_x)
  THEN RSub(At(edgex, (cell % global_nx) - x_off + PAD + 1), x)
  ELSE RSub(RSub(At(edgex, (cell % global_nx) - x_off + PAD),
                 OPEN_BOUND_CORRECTION), x)

bright_to_edge_y(y, omega_y, cell) ==
  IF RLt(Zero, omega_y)
  THEN RSub(At(edgey, (cell \div global_nx) - y_off + PAD + 1), y)
  ELSE RSub(RSub(At(edgey, (cell \div global_nx) - y_off + PAD),
                 OPEN_BOUND_CORRECTION), y)

\* bright.c: dt_x and dt_y are the distances to the edges times
\* 1 / (omega * velocity); the distance to the facet is computed again, as
\* the distance to the edge times the velocity and then 1 / (omega * velocity)
bright_first_facet(to_x, to_y, mag_u0, u_x_inv, u_y_inv) ==
  [x_facet |-> RLt(RMul(to_x, u_x_inv), RMul(to_y, u_y_inv)),
   distance_to_facet |->
     IF RLt(RMul(to_x, u_x_inv), RMul(to_y, u_y_inv))
     THEN RMul(RMul(to_x, mag_u0), u_x_inv)
     ELSE RMul(RMul(to_y, mag_u0), u_y_inv)]

\* calc_distance_to_facet of bright.c
bright_calc_distance_to_facet(x, y, omega_x, omega_y, particle_velocity, cell) ==
  bright_first_facet(bright_to_edge_x(x, omega_x, cell),
                     bright_to_edge_y(y, omega_y, cell),
                     particle_velocity,
                     RInv(RMul(omega_x, particle_velocity)),
                     RInv(RMul(omega_y, particle_velocity)))

\* The directions of the calls followed: along an axis, with a component
\* that is exactly 0, and oblique
FacetDirections ==
  {<<R(1), R(0)>>, <<R(-1), R(0)>>, <<R(0), R(1)>>, <<R(0), R(-1)>>,
   <<<<3, 5>>, <<4, 5>>>>, <<<<-3, 5>>, <<4, 5>>>>,
   <<<<4, 5>>, <<-3, 5>>>>, <<<<-4, 5>>, <<-3, 5>>>>}

\* The offsets of the position from the lower edges of its cell
FacetOffsets == {R(0), R(1), R(3)}

FacetSpeeds == {R(1), R(2)}

\* The outputs of a variant before its call: nothing is written to them
NotCalled == [x_facet |-> FALSE, distance_to_facet |-> NaN]

\* A particle of some cell of the mesh, before either variant is called
InitFacetCall ==
  /\ \E cellx \in 0 .. (global_nx - 1), celly \in 0 .. (global_ny - 1),
        ox \in FacetOffsets, oy \in FacetOffsets, omega \in FacetDirections,
        speed \in FacetSpeeds :
       facet_call = [x |-> RAdd(At(edgex, cellx - x_off + pad), ox),
                     y |-> RAdd(At(edgey, celly - y_off + pad), oy),
                     cellx |-> cellx, celly |-> celly,
                     omega_x |-> omega[1], omega_y |-> omega[2],
                     speed |-> speed,
                     called |-> {},
                     neutral |-> NotCalled, bright |-> NotCalled]
  /\ lookup = <<>>
  /\ inject = <<>>
  /\ walk = <<>>
  /\ exchange = <<>>
  /\ BlockLoopLeftOut
  /\ PartitionLeftOut
  /\ NoWorkerInUpdate
  /\ FirstTimeStep

\* The call of neutral.c, lines 538-572
CallNeutral ==
  /\ "neutral" \notin facet_call.called
  /\ facet_call' =
       [facet_call EXCEPT !.called = @ \cup {"neutral"}, !.neutral =
          calc_distance_to_facet(facet_call.x, facet_call.y,
                                 facet_call.omega_x, facet_call.omega_y,
                                 facet_call.speed, facet_call.cellx,
                                 facet_call.celly)]
  /\ UNCHANGED <<block_vars, thread_vars, atomic_vars, main_vars, lookup,
                 inject, walk, exchange>>

\* The call of bright.c, lines 482-533, for cell = celly * global_nx + cellx
CallBright ==
  /\ "bright" \notin facet_call.called
  /\ facet_call' =
       [facet_call EXCEPT !.called = @ \cup {"bright"}, !.bright =
          bright_calc_distance_to_facet(
            facet_call.x, facet_call.y, facet_call.omega_x,
            facet_call.omega_y, facet_call.speed,
            facet_call.celly * global_nx + facet_call.cellx)]
  /\ UNCHANGED <<block_vars, thread_vars, atomic_vars, main_vars, lookup,
                 inject, walk, exchange>>

NextFacetCall ==
  \/ CallNeutral
  \/ CallBright

SpecFacetCall == InitFacetCall /\ [][NextFacetCall]_vars

BothCalled == facet_call.called = {"neutral", "bright"}

\* C35: the two variants of calc_distance_to_facet give the same distance
\* and the same x_facet for the same arguments, also when a component of
\* the direction is exactly 0.
C35_AsStated ==
  BothCalled =>
    /\ facet_call.neutral.x_facet = facet_call.bright.x_facet
    /\ facet_call.neutral.distance_to_facet =
         facet_call.bright.distance_to_facet

\* For a direction with no component equal to 0 the two variants give the
\* same distance and the same x_facet
ObliqueSameFacet ==
  (/\ BothCalled
   /\ facet_call.omega_x # Zero
   /\ facet_call.omega_y # Zero) =>
    /\ facet_call.neutral.x_facet = facet_call.bright.x_facet
    /\ facet_call.neutral.distance_to_facet =
         facet_call.bright.distance_to_facet

\* Both variants have been called for an oblique direction towards the lower
\* edges
ObliqueBothCalled ==
  /\ BothCalled
  /\ RLt(facet_call.omega_x, Zero)
  /\ RLt(facet_call.omega_y, Zero)


(***************************************************************************)
(* The time taken off dt_to_census by each event                           *)
(***************************************************************************)
\* The kernel of the lane's tag runs for the lane in this step
EventRuns(ip) ==
  \/ pc = "collision" /\ next_event[ip] = PARTICLE_COLLISION
  \/ pc = "facet" /\ next_event[ip] = PARTICLE_FACET
  \/ pc = "census" /\ next_event[ip] = PARTICLE_CENSUS

\* The length of the path of that event
PathLength(ip) ==
  IF pc = "collision"
  THEN RMul(particle_block[ip].mfp_to_collision, cache[ip].cell_mfp)
  ELSE IF pc = "facet"
  THEN cache[ip].distance_to_facet
  ELSE RMul(cache[ip].speed, particle_block[ip].dt_to_census)

\* The event of the step takes its path length over the speed during the
\* path off the lane's time to census
TimeTaken(ip) ==
  particle_block'[ip].dt_to_census =
    RSub(particle_block[ip].dt_to_census,
         RDiv(PathLength(ip), cache[ip].speed))

\* C32: the time consumed equals the distance travelled: every executed
\* event takes its path length divided by the speed in force during the path
\* off dt_to_census, the collision in which the particle dies included.
C32_AsStated ==
  [][\A ip \in Lanes : EventRuns(ip) => TimeTaken(ip)]_vars

\* Every executed event that leaves the particle alive takes its path length
\* divided by the speed in force during the path off dt_to_census
SurvivedEventsTimed ==
  [][\A ip \in Lanes :
       (EventRuns(ip) /\ ~particle_block'[ip].dead) => TimeTaken(ip)]_vars

\* A collision in which the particle dies leaves dt_to_census as it was
FatalCollisionUntimed ==
  [][\A ip \in Lanes :
       (EventRuns(ip) /\ particle_block'[ip].dead) =>
         particle_block'[ip].dt_to_census = particle_block[ip].dt_to_census]_vars


(***************************************************************************)
(* The energy of each path and the tally, in the default build             *)
(***************************************************************************)
\* The energy deposition of the path of the lane's event in this step
Deposit(ip) ==
  calculate_energy_deposition(
    PathLength(ip), cache[ip].number_density, cache[ip].microscopic_cs_absorb,
    RAdd(cache[ip].microscopic_cs_scatter, cache[ip].microscopic_cs_absorb),
    particle_block[ip].energy, particle_block[ip].weight)

\* The energy kept in the lane and that of the path of this step
Owed(ip) == RAdd(cache[ip].energy_deposition, Deposit(ip))

\* The lanes whose event of this step ends a stay in a cell: a facet, a
\* census, or a collision in which the particle dies
Flushing ==
  {ip \in Lanes :
     /\ EventRuns(ip)
     /\ pc = "collision" => particle_block'[ip].dead}

\* The sum over the lanes ip .. BLOCK_SIZE-1 of flushing that are in the cell
\* of tally index i before the step, of what each owes to the tally
RECURSIVE FlushedTo(_, _, _)
FlushedTo(i, ip, flushing) ==
  IF ip = BLOCK_SIZE THEN Zero
  ELSE RAdd(IF ip \in flushing
               /\ tally_index(particle_block[ip].cellx,
                              particle_block[ip].celly) = i
            THEN RMul(Owed(ip), inv_ntotal_particles)
            ELSE Zero,
            FlushedTo(i, ip + 1, flushing))

=============================================================================
